---- MODULE Spec2Model ----
(***************************************************************************)
(* A model of lora_diffusion/lora.py: the two augmented layer classes,     *)
(* the module locator _find_modules_v2, the injection / replacement /      *)
(* composition passes that rewrite a torch module graph in place, and the  *)
(* safetensors container written and parsed by the serialization layer.    *)
(*                                                                         *)
(* Modules are objects on a heap (heap[i] is module i, module 1 is the     *)
(* model passed to every call); a parent holds its children by name in     *)
(* declaration order (nn.Module._modules).  Tensors are values that carry  *)
(* the identity of the nn.Parameter that holds them.                       *)
(***************************************************************************)
EXTENDS Integers, Sequences, FiniteSets, TLC

VARIABLES heap,   \* the module objects allocated so far
          tn,     \* number of Parameter identities handed out so far
          gid,    \* which initial model the behaviour started from
          hist,   \* the names of the calls made so far
          prev,   \* the heap as the last call found it
          last,   \* the last call: its name, arguments and outcome
          file,   \* the safetensors container on disk
          given,  \* the arguments the container was written from
          parsed, \* what parse_safeloras returned
          embeds  \* what parse_safeloras_embeds returned

vars == <<heap, tn, gid, hist, prev, last, file, given, parsed, embeds>>

-----------------------------------------------------------------------------
(* Tensors: [id, shape, data], data in row-major order.                    *)

NoT == [id |-> 0, shape |-> <<>>, data |-> <<>>]

RECURSIVE Prod(_)
Prod(s) == IF s = <<>> THEN 1 ELSE Head(s) * Prod(Tail(s))

Numel(shape) == Prod(shape)

Ndim(t) == Len(t.shape)

Tensor(i, shape, f(_)) ==
  [id |-> i, shape |-> shape, data |-> [k \in 1..Numel(shape) |-> f(k)]]

\* tensor.flatten(start_dim=1): same storage, shape (d1, d2*...*dn)
Flatten1(t) ==
  [t EXCEPT !.shape = <<Head(t.shape), Prod(Tail(t.shape))>>]

\* tensor.reshape(shape): same storage, new shape
Reshape(t, shape) == [t EXCEPT !.shape = shape]

At(t, i, j) == t.data[(i - 1) * t.shape[2] + j]

RECURSIVE SumTo(_, _)
SumTo(f, n) == IF n = 0 THEN 0 ELSE f[n] + SumTo(f, n - 1)

\* a @ b for 2-D tensors; the result is a new tensor without Parameter identity
MatMul(a, b) ==
  [id |-> 0,
   shape |-> <<a.shape[1], b.shape[2]>>,
   data |-> [k \in 1..(a.shape[1] * b.shape[2]) |->
               LET i == ((k - 1) \div b.shape[2]) + 1
                   j == ((k - 1) % b.shape[2]) + 1
               IN SumTo([m \in 1..a.shape[2] |-> At(a, i, m) * At(b, m, j)],
                        a.shape[2])]]

\* a + c * b, elementwise
AddScaled(a, c, b) ==
  [id |-> 0, shape |-> a.shape,
   data |-> [k \in 1..Len(a.data) |-> a.data[k] + c * b.data[k]]]

\* elementwise arithmetic on 2-D tensors broadcasts a dimension of size 1
BroadcastOK(a, b) ==
  /\ Ndim(a) = 2 /\ Ndim(b) = 2
  /\ \A d \in 1..2 : a.shape[d] = b.shape[d] \/ a.shape[d] = 1 \/ b.shape[d] = 1

BroadcastAt(t, i, j) ==
  At(t, IF t.shape[1] = 1 THEN 1 ELSE i, IF t.shape[2] = 1 THEN 1 ELSE j)

\* a * beta + b * alpha, elementwise with broadcasting
Blend(a, beta, b, alpha) ==
  LET rows == IF a.shape[1] >= b.shape[1] THEN a.shape[1] ELSE b.shape[1]
      cols == IF a.shape[2] >= b.shape[2] THEN a.shape[2] ELSE b.shape[2]
  IN [id |-> 0, shape |-> <<rows, cols>>,
      data |-> [k \in 1..(rows * cols) |->
                  LET i == ((k - 1) \div cols) + 1
                      j == ((k - 1) % cols) + 1
                  IN BroadcastAt(a, i, j) * beta + BroadcastAt(b, i, j) * alpha]]

IsZero(t) == \A k \in 1..Len(t.data) : t.data[k] = 0

\* y = W x for a weight flattened to (rows, cols) and a vector x
MatVec(w, x) ==
  [i \in 1..w.shape[1] |->
     SumTo([m \in 1..w.shape[2] |-> At(w, i, m) * x[m]], w.shape[2])]

-----------------------------------------------------------------------------
(* Module classes.                                                         *)

LinearClasses == {"Linear", "LinearSub"}       \* isinstance(m, nn.Linear)
Conv2dClasses == {"Conv2d", "Conv2dSub"}       \* isinstance(m, nn.Conv2d)
LoraClasses   == {"LoraInjectedLinear", "LoraInjectedConv2d"}

UNET_DEFAULT_TARGET_REPLACE == {"CrossAttention", "Attention", "GEGLU"}
UNET_EXTENDED_TARGET_REPLACE ==
  {"ResnetBlock2D", "CrossAttention", "Attention", "GEGLU"}
TEXT_ENCODER_EXTENDED_TARGET_REPLACE == {"CLIPAttention"}
DEFAULT_TARGET_REPLACE == UNET_DEFAULT_TARGET_REPLACE

\* isinstance(module, _class) for the classes named in a search_class list
IsInstance(cls, search) ==
  \/ cls \in search
  \/ cls = "LinearSub" /\ "Linear" \in search
  \/ cls = "Conv2dSub" /\ "Conv2d" \in search

Module(cls, kids, w, b, nin, nout, ks) ==
  [cls |-> cls, kids |-> kids, weight |-> w, bias |-> b,
   nin |-> nin, nout |-> nout, ksize |-> ks, scale |-> 0]

Container(cls, kids) == Module(cls, kids, NoT, NoT, 0, 0, <<>>)

Kid(name, ref) == [name |-> name, ref |-> ref]

-----------------------------------------------------------------------------
(* nn.Module traversal as torch runs it: named_modules() is a depth-first  *)
(* pre-order walk (the module itself, then each child in declaration       *)
(* order) that skips every object already in its memo set.                 *)

RECURSIVE NamedModulesRec(_, _, _, _), NamedModulesKids(_, _, _, _, _)

NamedModulesRec(h, m, prefix, memo) ==
  IF m \in memo
  THEN [out |-> <<>>, memo |-> memo]
  ELSE NamedModulesKids(h, h[m].kids, 1, prefix,
         [out |-> <<[path |-> prefix, ref |-> m]>>, memo |-> memo \cup {m}])

NamedModulesKids(h, kids, i, prefix, acc) ==
  IF i > Len(kids)
  THEN acc
  ELSE LET sub == NamedModulesRec(h, kids[i].ref,
                                  Append(prefix, kids[i].name), acc.memo)
       IN NamedModulesKids(h, kids, i + 1, prefix,
            [out |-> acc.out \o sub.out, memo |-> sub.memo])

\* m.named_modules(): the sequence of (fullname, module), fullname as the
\* list of attribute names that "." joins
NamedModules(h, m) == NamedModulesRec(h, m, <<>>, {}).out

\* m.modules()
Modules(h, m) ==
  LET nm == NamedModules(h, m) IN [k \in 1..Len(nm) |-> nm[k].ref]

\* getattr(m, name) on a module: the child registered under that name (0: none)
GetChild(h, m, name) ==
  LET ks == h[m].kids
      hit == {k \in 1..Len(ks) : ks[k].name = name}
  IN IF hit = {} THEN 0 ELSE ks[CHOOSE k \in hit : TRUE].ref

\* parent = ancestor; while path: parent = parent.get_submodule(path.pop(0))
RECURSIVE GetSubmodule(_, _, _)
GetSubmodule(h, m, path) ==
  IF path = <<>> \/ m = 0 THEN m
  ELSE GetSubmodule(h, GetChild(h, m, Head(path)), Tail(path))

\* *path, name = fullname.split("."): "".split(".") is [""], so the ancestor
\* itself comes with an empty path and the empty name
SplitPath(fullname) ==
  IF fullname = <<>> THEN <<>> ELSE SubSeq(fullname, 1, Len(fullname) - 1)

SplitName(fullname) ==
  IF fullname = <<>> THEN "" ELSE fullname[Len(fullname)]

\* ancestor_class: [given |-> FALSE] stands for None
NoAncestorClass == [given |-> FALSE, names |-> {}]
AncestorClass(names) == [given |-> TRUE, names |-> names]

\* an outer loop that walks every module whatever the tags are
AncestorsUntagged(h, root, ac) == Modules(h, root)

\* the modules the outer loop of _find_modules_v2 walks
Ancestors(h, root, ac) ==
  LET all == Modules(h, root)
      Tagged(m) == h[m].cls \in ac.names
  IN IF ac.given THEN SelectSeq(all, Tagged) ELSE all

\* the named_modules() entries of one ancestor whose module is an instance
\* of a searched class
Matches(h, anc, search) ==
  LET Hit(e) == IsInstance(h[e.ref].cls, search)
  IN SelectSeq(NamedModules(h, anc), Hit)

\* a locator that skips no match: exclude_children_of empty
ExcludedNever(h, parent, excl) == FALSE

\* a locator that skips the matches inside a dense wrapper only
ExcludedInDense(h, parent, excl) ==
  parent # 0 /\ h[parent].cls = "LoraInjectedLinear"

\* exclude_children_of and any(isinstance(parent, c) for c in exclude_children_of)
Excluded(h, parent, excl) == parent # 0 /\ IsInstance(h[parent].cls, excl)

\* what one ancestor contributes to the locator's output on a graph that is
\* not modified meanwhile
RECURSIVE YieldsOf(_, _, _, _, _)
YieldsOf(h, anc, ms, k, excl) ==
  IF k > Len(ms) THEN <<>>
  ELSE LET parent == GetSubmodule(h, anc, SplitPath(ms[k].path))
           rest   == YieldsOf(h, anc, ms, k + 1, excl)
       IN IF Excluded(h, parent, excl)
          THEN rest
          ELSE <<[parent |-> parent, name |-> SplitName(ms[k].path),
                  module |-> ms[k].ref, ancestor |-> anc]>> \o rest

RECURSIVE FindOver(_, _, _, _, _)
FindOver(h, ancs, i, search, excl) ==
  IF i > Len(ancs) THEN <<>>
  ELSE YieldsOf(h, ancs[i], Matches(h, ancs[i], search), 1, excl)
         \o FindOver(h, ancs, i + 1, search, excl)

\* list(_find_modules_v2(model, ancestor_class, search_class)) with the
\* default exclude_children_of
FindModules(h, root, ac, search) ==
  FindOver(h, Ancestors(h, root, ac), 1, search, LoraClasses)

-----------------------------------------------------------------------------
(* Construction of layers.  A pass threads a record st through its loop:   *)
(* st.heap and st.tn grow as objects and Parameters are created, st.err    *)
(* names the exception that ended the call ("ok": none so far), st.tmp is  *)
(* the loop's local _tmp (0: not bound yet) and st.bias its local bias.    *)
(* Every step leaves a state that already carries an exception as it is.   *)

Min(a, b) == IF a <= b THEN a ELSE b
Max(a, b) == IF a >= b THEN a ELSE b

Fail(st, e) == [st EXCEPT !.err = e]

\* the rank compared with the larger of the two widths instead
RankTooLargeMax(r, nin, nout) == r > Max(nin, nout)

\* if r > min(in_features, out_features): raise ValueError
RankTooLarge(r, nin, nout) == r > Min(nin, nout)

\* nn.init.zeros_(self.lora_up.weight)
InitUp(i, shape, noise) == Tensor(i, shape, LAMBDA k : 0)

\* nn.init.normal_(self.lora_down.weight, std=1 / r): some values, here noise
InitDown(i, shape, noise) == Tensor(i, shape, LAMBDA k : noise)

\* the weight and bias nn.Linear / nn.Conv2d allocate for themselves
InitBase(i, shape, noise) == Tensor(i, shape, LAMBDA k : noise)

\* nn.Linear(nin, nout, bias) appended to the heap; its reference is the
\* new length of the heap
NewLinear(st, nin, nout, hasBias) ==
  [st EXCEPT
     !.heap = Append(@, Module("Linear", <<>>,
                 InitBase(st.tn + 1, <<nout, nin>>, st.noise),
                 IF hasBias THEN InitBase(st.tn + 2, <<nout>>, st.noise) ELSE NoT,
                 nin, nout, <<>>)),
     !.tn = @ + 2]

\* nn.Conv2d(nin, nout, kernel_size, ..., bias)
NewConv2d(st, nin, nout, ks, hasBias) ==
  [st EXCEPT
     !.heap = Append(@, Module("Conv2d", <<>>,
                 InitBase(st.tn + 1, <<nout, nin, ks[1], ks[2]>>, st.noise),
                 IF hasBias THEN InitBase(st.tn + 2, <<nout>>, st.noise) ELSE NoT,
                 nin, nout, ks)),
     !.tn = @ + 2]

NewDropout(st) ==
  [st EXCEPT !.heap = Append(@, Container("Dropout", <<>>))]

\* the end of both __init__: with the base layer, lora_down, dropout and
\* lora_up at heap[n+1..n+4], the two projections are initialised and the
\* wrapper is the next object; st.tmp refers to it
InitLora(st, n, cls, baseName, r) ==
  IF r = 0 THEN Fail(st, "ZeroDivisionError")
  ELSE [st EXCEPT
          !.heap = Append(
             [@ EXCEPT ![n + 2].weight = InitDown(@.id, @.shape, st.noise),
                       ![n + 4].weight = InitUp(@.id, @.shape, st.noise)],
             [Container(cls,
                << Kid(baseName, n + 1), Kid("lora_down", n + 2),
                   Kid("dropout", n + 3), Kid("lora_up", n + 4) >>)
              EXCEPT !.scale = 1]),
          !.tmp = n + 5]

\* LoraInjectedLinear(in_features, out_features, bias, r)
NewLoraInjectedLinear(st, nin, nout, hasBias, r) ==
  IF RankTooLarge(r, nin, nout) THEN Fail(st, "ValueError")
  ELSE InitLora(
         NewLinear(
           NewDropout(
             NewLinear(NewLinear(st, nin, nout, hasBias), nin, r, FALSE)),
           r, nout, FALSE),
         Len(st.heap), "LoraInjectedLinear", "linear", r)

\* LoraInjectedConv2d(in_channels, out_channels, kernel_size, stride,
\* padding, dilation, groups, bias, r).  stride, padding, dilation and groups
\* are handed through to conv and lora_down unchanged and are not part of the
\* state: the forward pass is taken at one output position of an ungrouped
\* convolution.
NewLoraInjectedConv2d(st, nin, nout, ks, hasBias, r) ==
  IF RankTooLarge(r, nin, nout) THEN Fail(st, "ValueError")
  ELSE InitLora(
         NewConv2d(
           NewDropout(
             NewConv2d(NewConv2d(st, nin, nout, ks, hasBias), nin, r, ks, FALSE)),
           r, nout, <<1, 1>>, FALSE),
         Len(st.heap), "LoraInjectedConv2d", "conv", r)

\* nn.Parameter(t): a new Parameter over the values of t
NewParameter(st, t) == [id |-> st.tn + 1, shape |-> t.shape, data |-> t.data]

\* parent._modules[name] = ref: the value of an existing key is replaced in
\* place, a new key goes to the end of the dict
SetChild(h, parent, name, ref) ==
  IF \E k \in 1..Len(h[parent].kids) : h[parent].kids[k].name = name
  THEN [h EXCEPT ![parent].kids =
          [k \in 1..Len(@) |-> IF @[k].name = name THEN Kid(name, ref) ELSE @[k]]]
  ELSE [h EXCEPT ![parent].kids = Append(@, Kid(name, ref))]

-----------------------------------------------------------------------------
(* The loop bodies of the passes.  Each takes the state of the pass and    *)
(* one yielded triple (parent, name, child) and returns the state after    *)
(* the body ran, st.err set when it raised.                                *)

\* _tmp.linear.weight = weight; if bias is not None: _tmp.linear.bias = bias
ShareBase(h, base, weight, bias) ==
  [h EXCEPT ![base].weight = weight,
            ![base].bias = IF bias # NoT THEN bias ELSE @]

\* the new wrapper st.tmp takes the weight and bias of the layer it is built
\* from; weight and bias are the loop's locals from here on
ShareInto(st, baseName, weight, bias) ==
  IF st.err # "ok" THEN st
  ELSE [st EXCEPT !.heap = ShareBase(@, GetChild(@, st.tmp, baseName),
                                     weight, bias),
                  !.bias = bias]

\* lines 229-239, 281-291, 637-648: a LoraInjectedLinear of rank st.r built
\* from a dense layer src
WrapLinear(st, src) ==
  IF st.err # "ok" THEN st
  ELSE ShareInto(
         NewLoraInjectedLinear(st, st.heap[src].nin, st.heap[src].nout,
                               st.heap[src].bias # NoT, st.r),
         "linear", st.heap[src].weight, st.heap[src].bias)

\* lines 293-309, 716-733: a LoraInjectedConv2d built from a convolution src
WrapConv2d(st, src) ==
  IF st.err # "ok" THEN st
  ELSE ShareInto(
         NewLoraInjectedConv2d(st, st.heap[src].nin, st.heap[src].nout,
                               st.heap[src].ksize, st.heap[src].bias # NoT,
                               st.r),
         "conv", st.heap[src].weight, st.heap[src].bias)

\* module.weight = nn.Parameter(loras.pop(0))
LoadNext(st, m) ==
  IF st.err # "ok" THEN st
  ELSE IF st.loras = <<>> THEN Fail(st, "IndexError")
  ELSE [st EXCEPT !.heap[m].weight = NewParameter(st, Head(st.loras)),
                  !.tn = @ + 1,
                  !.loras = Tail(@)]

\* lines 248-250 / 321-323: with preset tensors, lora_up and then lora_down
\* of the layer now in the slot take the next two of them
LoadPreset(st, parent, name) ==
  IF st.err # "ok" \/ ~st.hasLoras THEN st
  ELSE LoadNext(
         LoadNext(st, GetChild(st.heap, GetChild(st.heap, parent, name),
                               "lora_up")),
         GetChild(st.heap, GetChild(st.heap, parent, name), "lora_down"))

\* a switch that hands the scale of a wrapper found in the slot on to the
\* layer put there
PlaceKeepingScale(st, parent, name) ==
  IF st.err # "ok" THEN st
  ELSE IF st.tmp = 0 THEN Fail(st, "UnboundLocalError")
  ELSE [st EXCEPT
          !.heap = SetChild(
             IF st.heap[GetChild(st.heap, parent, name)].cls \in LoraClasses
             THEN [st.heap EXCEPT ![st.tmp].scale =
                     st.heap[GetChild(st.heap, parent, name)].scale]
             ELSE st.heap,
             parent, name, st.tmp),
          !.placed = Append(@, [parent |-> parent, name |-> name,
                                module |-> st.tmp])]

\* _module._modules[name] = _tmp
Place(st, parent, name) ==
  IF st.err # "ok" THEN st
  ELSE IF st.tmp = 0 THEN Fail(st, "UnboundLocalError")
  ELSE [st EXCEPT !.heap = SetChild(@, parent, name, st.tmp),
                  !.placed = Append(@, [parent |-> parent, name |-> name,
                                        module |-> st.tmp])]

\* lines 241-254: switch the module, load the preset tensors
Install(st, parent, name) == LoadPreset(Place(st, parent, name), parent, name)

\* the body of inject_trainable_lora
InjectBody(st, parent, name, c) ==
  Install(WrapLinear(st, c), parent, name)

\* lines 311-327: _tmp.to(...) needs _tmp bound; bias is the loop's local
\* while _child_module.bias is this child's
InstallExtended(st, parent, name, c) ==
  IF st.err # "ok" THEN st
  ELSE IF st.tmp # 0 /\ st.bias # NoT /\ st.heap[c].bias = NoT
       THEN Fail(st, "AttributeError")
  ELSE Install(st, parent, name)

\* the body of inject_trainable_lora_extended: the two branches test the
\* class itself, so a subclass of nn.Linear or nn.Conv2d takes neither and
\* _tmp, weight and bias keep what the previous iteration left in them
InjectExtendedBody(st, parent, name, c) ==
  InstallExtended(
    IF st.heap[c].cls = "Linear" THEN WrapLinear(st, c)
    ELSE IF st.heap[c].cls = "Conv2d" THEN WrapConv2d(st, c)
    ELSE st,
    parent, name, c)

\* r=r.pop(0) if isinstance(r, list) else r
NextRank(st) ==
  IF st.rIsList
  THEN IF st.rlist = <<>> THEN Fail(st, "IndexError")
       ELSE [st EXCEPT !.r = Head(st.rlist), !.rlist = Tail(@)]
  ELSE st

\* up_weight = loras.pop(0); down_weight = loras.pop(0)
PopPair(st) ==
  IF st.err # "ok" THEN st
  ELSE IF Len(st.loras) < 2
  THEN [Fail(st, "IndexError") EXCEPT !.loras = <<>>]
  ELSE [st EXCEPT !.loras = SubSeq(@, 3, Len(@)),
                  !.popped = SubSeq(st.loras, 1, 2)]

\* lines 656-661 / 741-746: lora_up and lora_down of the layer now in the
\* slot get new Parameters over the two popped tensors
AssignPair(st, parent, name) ==
  IF st.err # "ok" THEN st
  ELSE [st EXCEPT
          !.heap[GetChild(st.heap, GetChild(st.heap, parent, name), "lora_up")]
             .weight = [id |-> st.tn + 1, shape |-> st.popped[1].shape,
                        data |-> st.popped[1].data],
          !.heap[GetChild(st.heap, GetChild(st.heap, parent, name), "lora_down")]
             .weight = [id |-> st.tn + 2, shape |-> st.popped[2].shape,
                        data |-> st.popped[2].data],
          !.tn = @ + 2]

\* lines 651-661 / 736-746
InstallPair(st, parent, name) ==
  AssignPair(PopPair(Place(st, parent, name)), parent, name)

\* _source = c.linear if isinstance(c, LoraInjectedLinear) else c, and the
\* same for conv
SourceOf(h, c) ==
  IF h[c].cls = "LoraInjectedLinear" THEN GetChild(h, c, "linear")
  ELSE IF h[c].cls = "LoraInjectedConv2d" THEN GetChild(h, c, "conv")
  ELSE c

\* the body of monkeypatch_or_replace_lora
ReplaceBody(st, parent, name, c) ==
  InstallPair(WrapLinear(NextRank(st), SourceOf(st.heap, c)), parent, name)

\* the body of monkeypatch_or_replace_lora_extended; a state returned as it
\* came is the body's continue
ReplaceExtendedBody(st, parent, name, c) ==
  IF st.heap[c].cls \in {"Linear", "LoraInjectedLinear"}
  THEN IF st.loras = <<>> THEN Fail(st, "IndexError")
       ELSE IF Ndim(st.loras[1]) # 2 THEN st
       ELSE InstallPair(WrapLinear(NextRank(st), SourceOf(st.heap, c)),
                        parent, name)
  ELSE IF st.heap[c].cls \in {"Conv2d", "LoraInjectedConv2d"}
  THEN IF st.loras = <<>> THEN Fail(st, "IndexError")
       ELSE IF Ndim(st.loras[1]) # 4 THEN st
       ELSE InstallPair(WrapConv2d(NextRank(st), SourceOf(st.heap, c)),
                        parent, name)
  ELSE InstallPair(st, parent, name)

\* lines 776-799: the new plain layer, the last object of the heap, takes the
\* base layer's weight and bias and the slot
PlacePlain(st, parent, name, weight, bias) ==
  [st EXCEPT !.heap = SetChild(ShareBase(@, Len(@), weight, bias),
                               parent, name, Len(@)),
             !.placed = Append(@, [parent |-> parent, name |-> name,
                                   module |-> Len(st.heap)])]

\* the body of monkeypatch_remove_lora
RemoveLayer(st, parent, name, src) ==
  PlacePlain(
    IF st.heap[src].cls = "Linear"
    THEN NewLinear(st, st.heap[src].nin, st.heap[src].nout,
                   st.heap[src].bias # NoT)
    ELSE NewConv2d(st, st.heap[src].nin, st.heap[src].nout,
                   st.heap[src].ksize, st.heap[src].bias # NoT),
    parent, name, st.heap[src].weight, st.heap[src].bias)

RemoveBody(st, parent, name, c) ==
  RemoveLayer(st, parent, name,
              GetChild(st.heap, c,
                       IF st.heap[c].cls = "LoraInjectedLinear"
                       THEN "linear" ELSE "conv"))

\* nn.Parameter(weight.data + alpha * product)
Folded(st, weight, alpha, product) ==
  [id |-> st.tn + 1, shape |-> weight.shape,
   data |-> AddScaled(weight, alpha, product).data]

\* lines 595-604: the dense branch.  torch batches a matrix product of
\* tensors that are not 2-D and broadcasts a sum of unequal shapes; that
\* arithmetic is left out: "unmodelled" ends such a call and no behaviour of
\* the model continues from it
FoldLinear(st, parent, name, c, base, up, down) ==
  IF Ndim(up) # 2 \/ Ndim(down) # 2 THEN Fail(st, "unmodelled")
  ELSE IF up.shape[2] # down.shape[1] THEN Fail(st, "RuntimeError")
  ELSE IF <<up.shape[1], down.shape[2]>> # st.heap[base].weight.shape
       THEN Fail(st, "unmodelled")
  ELSE [st EXCEPT !.heap[base].weight = Folded(st, @, st.alpha, MatMul(up, down)),
                  !.tn = @ + 1,
                  !.placed = Append(@, [parent |-> parent, name |-> name,
                                        module |-> c])]

\* lines 607-617: the convolutional branch; up and down come flattened
FoldConv(st, parent, name, c, base, up, down) ==
  IF up.shape[2] # down.shape[1] THEN Fail(st, "RuntimeError")
  ELSE IF up.shape[1] * down.shape[2] # Numel(st.heap[base].weight.shape)
       THEN Fail(st, "RuntimeError")
  ELSE [st EXCEPT !.heap[base].weight =
                     Folded(st, @, st.alpha, Reshape(MatMul(up, down), @.shape)),
                  !.tn = @ + 1,
                  !.placed = Append(@, [parent |-> parent, name |-> name,
                                        module |-> c])]

\* the body of collapse_lora
CollapseBody(st, parent, name, c) ==
  IF st.heap[c].cls = "LoraInjectedLinear"
  THEN FoldLinear(st, parent, name, c, GetChild(st.heap, c, "linear"),
                  st.heap[GetChild(st.heap, c, "lora_up")].weight,
                  st.heap[GetChild(st.heap, c, "lora_down")].weight)
  ELSE FoldConv(st, parent, name, c, GetChild(st.heap, c, "conv"),
                Flatten1(st.heap[GetChild(st.heap, c, "lora_up")].weight),
                Flatten1(st.heap[GetChild(st.heap, c, "lora_down")].weight))

\* module.weight = nn.Parameter(incoming * alpha + module.weight * beta)
BlendInto(st, m, incoming) ==
  IF st.err # "ok" THEN st
  ELSE IF Ndim(st.heap[m].weight) # 2 \/ Ndim(incoming) # 2
       THEN Fail(st, "unmodelled")
  ELSE IF ~BroadcastOK(incoming, st.heap[m].weight) THEN Fail(st, "RuntimeError")
  ELSE [st EXCEPT !.heap[m].weight =
                     [Blend(incoming, st.alpha, @, st.beta) EXCEPT !.id = st.tn + 1],
                  !.tn = @ + 1]

AddNote(st, parent, name) ==
  IF st.err # "ok" THEN st
  ELSE [st EXCEPT !.placed = Append(@, [parent |-> parent, name |-> name,
                                        module |-> GetChild(st.heap, parent, name)])]

\* lines 816-826, once the two tensors are popped
AddPair(st, parent, name) ==
  IF st.err # "ok" THEN st
  ELSE AddNote(
         BlendInto(
           BlendInto(st, GetChild(st.heap, GetChild(st.heap, parent, name),
                                  "lora_up"), st.popped[1]),
           GetChild(st.heap, GetChild(st.heap, parent, name), "lora_down"),
           st.popped[2]),
         parent, name)

\* the body of monkeypatch_add_lora
AddBody(st, parent, name, c) == AddPair(PopPair(st), parent, name)

Body(st, parent, name, c) ==
  CASE st.op = "inject"           -> InjectBody(st, parent, name, c)
    [] st.op = "inject_extended"  -> InjectExtendedBody(st, parent, name, c)
    [] st.op = "replace"          -> ReplaceBody(st, parent, name, c)
    [] st.op = "replace_extended" -> ReplaceExtendedBody(st, parent, name, c)
    [] st.op = "remove"           -> RemoveBody(st, parent, name, c)
    [] st.op = "collapse"         -> CollapseBody(st, parent, name, c)
    [] st.op = "add"              -> AddBody(st, parent, name, c)

-----------------------------------------------------------------------------
(* for ... in _find_modules(model, ancestor_class, search_class): body     *)
(*                                                                         *)
(* The locator is a generator, so the bodies run between its steps.  A     *)
(* body only assigns the slot of the triple it was handed, and the walk    *)
(* of one ancestor has already fetched that slot's old module, so the      *)
(* modules one ancestor's named_modules() visits are those of the graph    *)
(* as the ancestor's turn begins; the parent of each match is looked up    *)
(* by path when the match is reached, in the graph as it is then.  The     *)
(* outer walk is taken on the graph before the pass: the bodies create     *)
(* and replace only layers and wrappers, whose class names are not         *)
(* ancestor tags.                                                          *)

RECURSIVE LoopItems(_, _, _, _)
LoopItems(st, anc, ms, k) ==
  IF k > Len(ms) \/ st.err # "ok" THEN st
  ELSE LET parent == GetSubmodule(st.heap, anc, SplitPath(ms[k].path))
       IN IF Excluded(st.heap, parent, LoraClasses)
          THEN LoopItems(st, anc, ms, k + 1)
          ELSE LoopItems(
                 Body([st EXCEPT !.yielded = Append(@,
                         [parent |-> parent, name |-> SplitName(ms[k].path),
                          module |-> ms[k].ref, ancestor |-> anc])],
                      parent, SplitName(ms[k].path), ms[k].ref),
                 anc, ms, k + 1)

RECURSIVE LoopAncestors(_, _, _, _)
LoopAncestors(st, ancs, i, search) ==
  IF i > Len(ancs) \/ st.err # "ok" THEN st
  ELSE LoopAncestors(
         LoopItems(st, ancs[i], Matches(st.heap, ancs[i], search), 1),
         ancs, i + 1, search)

Loop(st, ac, search) ==
  LoopAncestors(st, Ancestors(st.heap, 1, ac), 1, search)

\* the state a pass starts in
Start(h, n, op) ==
  [heap |-> h, tn |-> n, err |-> "ok", op |-> op, tmp |-> 0, bias |-> NoT,
   r |-> 0, rIsList |-> FALSE, rlist |-> <<>>, hasLoras |-> FALSE,
   loras |-> <<>>, popped |-> <<>>, alpha |-> 1, beta |-> 1, noise |-> 1,
   yielded |-> <<>>, placed |-> <<>>]

-----------------------------------------------------------------------------
(* The calls.                                                              *)

InjectSearch          == {"Linear"}
InjectExtendedSearch  == {"Linear", "Conv2d"}
ReplaceSearch         == {"Linear", "LoraInjectedLinear"}
ReplaceExtendedSearch ==
  {"Linear", "LoraInjectedLinear", "Conv2d", "LoraInjectedConv2d"}
AddSearch             == {"LoraInjectedLinear"}

\* inject_trainable_lora / inject_trainable_lora_extended
\* (model, target_replace_module, r, loras); loras = <<"none">> is None
InjectLora(h, n, ext, tags, r, noise, hasLoras, loras) ==
  Loop([Start(h, n, IF ext THEN "inject_extended" ELSE "inject")
          EXCEPT !.r = r, !.noise = noise, !.hasLoras = hasLoras,
                 !.loras = loras],
       AncestorClass(tags),
       IF ext THEN InjectExtendedSearch ELSE InjectSearch)

\* monkeypatch_or_replace_lora / monkeypatch_or_replace_lora_extended
\* (model, loras, target_replace_module, r)
ReplaceLora(h, n, ext, tags, loras, rIsList, r, rlist) ==
  Loop([Start(h, n, IF ext THEN "replace_extended" ELSE "replace")
          EXCEPT !.r = r, !.rIsList = rIsList, !.rlist = rlist,
                 !.loras = loras],
       AncestorClass(tags),
       IF ext THEN ReplaceExtendedSearch ELSE ReplaceSearch)

\* monkeypatch_remove_lora(model)
RemoveLora(h, n) == Loop(Start(h, n, "remove"), NoAncestorClass, LoraClasses)

\* collapse_lora(model, alpha)
CollapseLora(h, n, alpha) ==
  Loop([Start(h, n, "collapse") EXCEPT !.alpha = alpha],
       AncestorClass(UNET_EXTENDED_TARGET_REPLACE
                       \cup TEXT_ENCODER_EXTENDED_TARGET_REPLACE),
       LoraClasses)

\* monkeypatch_add_lora(model, loras, target_replace_module, alpha, beta)
AddLora(h, n, tags, loras, alpha, beta) ==
  Loop([Start(h, n, "add") EXCEPT !.alpha = alpha, !.beta = beta,
                                  !.loras = loras],
       AncestorClass(tags), AddSearch)

\* a walk that sets the scale of the dense augmented layers only
TuneLoraScaleDenseOnly(h, alpha) ==
  LET reach == {Modules(h, 1)[k] : k \in 1..Len(Modules(h, 1))}
  IN [m \in 1..Len(h) |->
        IF m \in reach /\ h[m].cls = "LoraInjectedLinear"
        THEN [h[m] EXCEPT !.scale = alpha] ELSE h[m]]

\* tune_lora_scale(model, alpha): the test is on the class name
TuneLoraScale(h, alpha) ==
  LET reach == {Modules(h, 1)[k] : k \in 1..Len(Modules(h, 1))}
  IN [m \in 1..Len(h) |->
        IF m \in reach /\ h[m].cls \in {"LoraInjectedLinear", "LoraInjectedConv2d"}
        THEN [h[m] EXCEPT !.scale = alpha] ELSE h[m]]

\* extract_lora_ups_down(model, target_replace_module): the (lora_up,
\* lora_down) modules of every located wrapper; <<>> stands for the
\* ValueError("No lora injected.")
ExtractLoraUpsDown(h, tags) ==
  LET found == FindModules(h, 1, AncestorClass(tags), LoraClasses)
  IN [k \in 1..Len(found) |->
        [up |-> GetChild(h, found[k].module, "lora_up"),
         down |-> GetChild(h, found[k].module, "lora_down")]]

-----------------------------------------------------------------------------
(* The forward pass of the layer in one slot, dropout inactive, on an      *)
(* input vector x (for a convolution: the input patch under the kernel at  *)
(* one output position, flattened).                                        *)

VecAdd(a, b) == [i \in 1..Len(a) |-> a[i] + b[i]]
VecScale(c, a) == [i \in 1..Len(a) |-> c * a[i]]

\* nn.Linear / nn.Conv2d: W x + b
PlainForward(l, x) ==
  LET y == MatVec(Flatten1(l.weight), x)
  IN IF l.bias = NoT THEN y ELSE VecAdd(y, l.bias.data)

PlainDefined(l, x) ==
  /\ Ndim(l.weight) = (IF l.cls \in LinearClasses THEN 2 ELSE 4)
  /\ Flatten1(l.weight).shape[2] = Len(x)
  /\ l.bias # NoT => Len(l.bias.data) = Flatten1(l.weight).shape[1]

BaseName(cls) == IF cls = "LoraInjectedLinear" THEN "linear" ELSE "conv"

\* lines 32-36 and 94-98: base(x) + lora_up(dropout(lora_down(x))) * scale
Forward(h, m, x) ==
  IF h[m].cls \in LoraClasses
  THEN VecAdd(PlainForward(h[GetChild(h, m, BaseName(h[m].cls))], x),
              VecScale(h[m].scale,
                 PlainForward(h[GetChild(h, m, "lora_up")],
                    PlainForward(h[GetChild(h, m, "lora_down")], x))))
  ELSE PlainForward(h[m], x)

ForwardDefined(h, m, x) ==
  IF h[m].cls \in LoraClasses
  THEN /\ PlainDefined(h[GetChild(h, m, BaseName(h[m].cls))], x)
       /\ PlainDefined(h[GetChild(h, m, "lora_down")], x)
       /\ PlainDefined(h[GetChild(h, m, "lora_up")],
                       PlainForward(h[GetChild(h, m, "lora_down")], x))
       /\ Len(PlainForward(h[GetChild(h, m, "lora_up")],
                 PlainForward(h[GetChild(h, m, "lora_down")], x)))
            = Len(PlainForward(h[GetChild(h, m, BaseName(h[m].cls))], x))
  ELSE PlainDefined(h[m], x)

-----------------------------------------------------------------------------
(* The models the calls are made on.  Module m of a plain graph holds      *)
(* Parameters 2m-1 (weight) and 2m (bias).                                 *)

Width == 2            \* in_features, out_features, in_channels, out_channels
KernelSize == <<1, 2>>

Dense(m, cls, hasBias) ==
  Module(cls, <<>>,
         Tensor(2 * m - 1, <<Width, Width>>, LAMBDA k : m + k),
         IF hasBias THEN Tensor(2 * m, <<Width>>, LAMBDA k : m - k) ELSE NoT,
         Width, Width, <<>>)

Conv(m, cls, hasBias) ==
  Module(cls, <<>>,
         Tensor(2 * m - 1, <<Width, Width, KernelSize[1], KernelSize[2]>>,
                LAMBDA k : m + k),
         IF hasBias THEN Tensor(2 * m, <<Width>>, LAMBDA k : m - k) ELSE NoT,
         Width, Width, KernelSize)

\* an attention block beside a layer that no tag covers
GraphFlat ==
  << Container("UNet", <<Kid("attn", 2), Kid("proj_out", 5)>>),
     Container("Attention", <<Kid("to_q", 3), Kid("to_k", 4)>>),
     Dense(3, "Linear", TRUE),
     Dense(4, "Linear", FALSE),
     Dense(5, "Linear", TRUE) >>

\* a tagged block inside a tagged block, a convolution before the dense layers
GraphNested ==
  << Container("UNet", <<Kid("res", 2)>>),
     Container("ResnetBlock2D",
               <<Kid("conv1", 3), Kid("attn", 4), Kid("time_emb_proj", 6)>>),
     Conv(3, "Conv2d", TRUE),
     Container("Attention", <<Kid("to_q", 5)>>),
     Dense(5, "Linear", FALSE),
     Dense(6, "Linear", TRUE) >>

\* layers under a block class of the caller's own
GraphCustom ==
  << Container("UNet", <<Kid("my", 2)>>),
     Container("MyBlock", <<Kid("fc", 3), Kid("cv", 4)>>),
     Dense(3, "Linear", TRUE),
     Conv(4, "Conv2d", FALSE) >>

\* the model is itself a tagged block; its second layer is of a subclass of
\* nn.Linear
GraphSubclass ==
  << Container("Attention", <<Kid("to_q", 2), Kid("to_out", 3)>>),
     Dense(2, "Linear", TRUE),
     Dense(3, "LinearSub", TRUE) >>

\* the first layer the locator meets is of a subclass of nn.Conv2d
GraphSubclassFirst ==
  << Container("UNet", <<Kid("res", 2)>>),
     Container("ResnetBlock2D", <<Kid("conv_shortcut", 3), Kid("conv2", 4)>>),
     Conv(3, "Conv2dSub", TRUE),
     Conv(4, "Conv2d", TRUE) >>

\* the list of tensors a caller hands in: pair i is (up_i, down_i) of rank
\* ranks[i], "d" for a dense layer (2-D), "c" for a convolution (4-D)
Incoming(kinds, ranks) ==
  [j \in 1..(2 * Len(kinds)) |->
     LET i == (j + 1) \div 2
         isUp == j % 2 = 1
         shape == IF kinds[i] = "d"
                  THEN (IF isUp THEN <<Width, ranks[i]>> ELSE <<ranks[i], Width>>)
                  ELSE (IF isUp THEN <<Width, ranks[i], 1, 1>>
                        ELSE <<ranks[i], Width, KernelSize[1], KernelSize[2]>>)
     IN Tensor(0, shape, LAMBDA k : IF isUp THEN i ELSE i + 1)]

Uniform(kinds, r) == [i \in 1..Len(kinds) |-> r]

\* a model as it comes from its constructor
Plain(g) == [heap |-> g, tn |-> 2 * Len(g)]

\* a model a trained correction was loaded into by the extended replace
Loaded(g, tags, kinds, ranks) ==
  [heap |-> ReplaceLora(g, 2 * Len(g), TRUE, tags, Incoming(kinds, ranks),
                        TRUE, 0, ranks).heap,
   tn   |-> ReplaceLora(g, 2 * Len(g), TRUE, tags, Incoming(kinds, ranks),
                        TRUE, 0, ranks).tn]

LoadedFlat ==
  Loaded(GraphFlat, UNET_EXTENDED_TARGET_REPLACE, <<"d", "d">>, <<2, 1>>)
LoadedNested ==
  Loaded(GraphNested, UNET_EXTENDED_TARGET_REPLACE,
         <<"c", "d", "d", "d">>, <<1, 1, 2, 1>>)
LoadedCustom ==
  Loaded(GraphCustom, {"MyBlock"}, <<"d", "c">>, <<1, 1>>)

Models ==
  << Plain(GraphFlat), Plain(GraphNested), Plain(GraphCustom),
     Plain(GraphSubclass), Plain(GraphSubclassFirst),
     LoadedFlat, LoadedNested, LoadedCustom >>

TagSets == {UNET_EXTENDED_TARGET_REPLACE, {"MyBlock"}}
Ranks == {1, 2}
Noise == {3}
PairKinds == {<<"d", "d">>, <<"d", "c">>, <<"c", "d", "d">>}
RankLists == {<<2, 1, 1>>}
Scales == {0, 2}
Alphas == {1, 2}

MaxOps == 2

-----------------------------------------------------------------------------
(* The state machine of the calls on one model.  hist lists the calls made *)
(* so far, prev is the heap the last call started from and last what that  *)
(* call was given and did; a list of tensors handed in is recorded by its  *)
(* kinds and ranks, Incoming(last.args.kinds, last.args.ranks).            *)

NoFile == [written |-> FALSE, err |-> "ok", weights |-> <<>>, metadata |-> <<>>]
NoGiven == [modelmap |-> <<>>, embeds |-> <<>>]
NoParse == [done |-> FALSE, err |-> "ok", out |-> <<>>]

NoCall ==
  [op |-> "init", ext |-> FALSE, tags |-> {}, args |-> <<>>, err |-> "ok",
   yielded |-> <<>>, placed |-> <<>>]

Done(op, ext, tags, args, st) ==
  [op |-> op, ext |-> ext, tags |-> tags, args |-> args, err |-> st.err,
   yielded |-> st.yielded, placed |-> st.placed]

NothingStored ==
  /\ file = NoFile
  /\ given = NoGiven
  /\ parsed = NoParse
  /\ embeds = NoParse

Init ==
  /\ gid \in 1..Len(Models)
  /\ heap = Models[gid].heap
  /\ tn = Models[gid].tn
  /\ hist = <<>>
  /\ prev = Models[gid].heap
  /\ last = NoCall
  /\ NothingStored

\* a call is made while the model's call budget lasts and no earlier call
\* raised; a call that leaves the model's arithmetic is not taken
Callable == Len(hist) < MaxOps /\ last.err = "ok"

Finish(op, ext, tags, args, st) ==
  /\ st.err # "unmodelled"
  /\ heap' = st.heap
  /\ tn' = st.tn
  /\ prev' = heap
  /\ hist' = Append(hist, op)
  /\ last' = Done(op, ext, tags, args, st)
  /\ UNCHANGED <<gid, file, given, parsed, embeds>>

Inject ==
  /\ Callable
  /\ \E ext \in BOOLEAN, tags \in TagSets, r \in Ranks, noise \in Noise :
       Finish("inject", ext, tags, [r |-> r],
              InjectLora(heap, tn, ext, tags, r, noise, FALSE, <<>>))

InjectPreset ==
  /\ Callable
  /\ \E ext \in BOOLEAN, tags \in TagSets, noise \in Noise, kinds \in PairKinds :
       Finish("inject_preset", ext, tags,
              [r |-> 1, kinds |-> kinds, ranks |-> Uniform(kinds, 1)],
              InjectLora(heap, tn, ext, tags, 1, noise, TRUE,
                         Incoming(kinds, Uniform(kinds, 1))))

Replace ==
  /\ Callable
  /\ \E ext \in BOOLEAN, tags \in TagSets, kinds \in PairKinds, r \in Ranks :
       Finish("replace", ext, tags,
              [r |-> r, kinds |-> kinds, ranks |-> Uniform(kinds, r)],
              ReplaceLora(heap, tn, ext, tags,
                          Incoming(kinds, Uniform(kinds, r)), FALSE, r, <<>>))

ReplaceRanked ==
  /\ Callable
  /\ \E ext \in BOOLEAN, tags \in TagSets, kinds \in PairKinds,
        rl \in RankLists :
       Finish("replace", ext, tags,
              [r |-> rl, kinds |-> kinds, ranks |-> rl],
              ReplaceLora(heap, tn, ext, tags, Incoming(kinds, rl), TRUE, 0, rl))

Remove ==
  /\ Callable
  /\ Finish("remove", FALSE, {}, <<>>, RemoveLora(heap, tn))

Collapse ==
  /\ Callable
  /\ \E alpha \in Alphas :
       Finish("collapse", FALSE, {}, [alpha |-> alpha],
              CollapseLora(heap, tn, alpha))

Add ==
  /\ Callable
  /\ \E tags \in TagSets, kinds \in PairKinds, alpha \in Alphas :
       Finish("add", FALSE, tags,
              [alpha |-> alpha, beta |-> 1, kinds |-> kinds,
               ranks |-> Uniform(kinds, 1)],
              AddLora(heap, tn, tags, Incoming(kinds, Uniform(kinds, 1)),
                      alpha, 1))

TuneScale ==
  /\ Callable
  /\ \E a \in Scales :
       /\ heap' = TuneLoraScale(heap, a)
       /\ prev' = heap
       /\ hist' = Append(hist, "tune")
       /\ last' = [NoCall EXCEPT !.op = "tune", !.args = [alpha |-> a]]
       /\ UNCHANGED <<tn, gid, file, given, parsed, embeds>>

Next ==
  \/ Inject
  \/ InjectPreset
  \/ Replace
  \/ ReplaceRanked
  \/ Remove
  \/ Collapse
  \/ Add
  \/ TuneScale

Spec == Init /\ [][Next]_vars

-----------------------------------------------------------------------------
(* The constructors called on their own.                                   *)

MaxWidth == 3
Widths == 1..MaxWidth
CtorRanks == 0..(MaxWidth + 1)
Variants == {"LoraInjectedLinear", "LoraInjectedConv2d"}

\* nothing constructed, nothing written
InitEmpty ==
  /\ heap = <<>>
  /\ tn = 0
  /\ gid = 0
  /\ hist = <<>>
  /\ prev = <<>>
  /\ last = NoCall
  /\ NothingStored

\* LoraInjectedLinear(nin, nout, bias, r) or
\* LoraInjectedConv2d(nin, nout, KernelSize, bias=bias, r=r)
Construct ==
  /\ hist = <<>>
  /\ \E variant \in Variants, nin \in Widths, nout \in Widths,
        hasBias \in BOOLEAN, r \in CtorRanks, noise \in Noise :
       Finish("construct", FALSE, {},
              [variant |-> variant, nin |-> nin, nout |-> nout,
               bias |-> hasBias, r |-> r],
              IF variant = "LoraInjectedLinear"
              THEN NewLoraInjectedLinear(
                     [Start(heap, tn, "construct") EXCEPT !.noise = noise],
                     nin, nout, hasBias, r)
              ELSE NewLoraInjectedConv2d(
                     [Start(heap, tn, "construct") EXCEPT !.noise = noise],
                     nin, nout, KernelSize, hasBias, r))

NextCtor == Construct

SpecCtor == InitEmpty /\ [][NextCtor]_vars

-----------------------------------------------------------------------------
(* Strings of the serialization layer are sequences of characters, so that *)
(* f-string keys, str.split, str(), int() and the JSON list of a target    *)
(* set are computed, character by character, as python computes them.      *)

\* the characters in use, in code point order
Ascii ==
  << " ", "\"", ",", "0", "1", "2", "3", "4", "5", "6", "7", "8", "9",
     ":", "<", ">", "A", "B", "C", "D", "E", "F", "G", "H", "I", "J",
     "K", "L", "M", "N", "O", "P", "Q", "R", "S", "T", "U", "V", "W",
     "X", "Y", "Z", "[", "]", "a", "b", "c", "d", "e", "f", "g", "h",
     "i", "j", "k", "l", "m", "n", "o", "p", "q", "r", "s", "t", "u",
     "v", "w", "x", "y", "z" >>

Ord(c) == CHOOSE i \in 1..Len(Ascii) : Ascii[i] = c

Digits == <<"0", "1", "2", "3", "4", "5", "6", "7", "8", "9">>

\* a < b for python strings
RECURSIVE StrLess(_, _)
StrLess(a, b) ==
  IF b = <<>> THEN FALSE
  ELSE IF a = <<>> THEN TRUE
  ELSE IF Head(a) # Head(b) THEN Ord(Head(a)) < Ord(Head(b))
  ELSE StrLess(Tail(a), Tail(b))

\* str(n) for n >= 0
RECURSIVE Str(_)
Str(n) ==
  IF n < 10 THEN <<Digits[n + 1]>>
  ELSE Str(n \div 10) \o <<Digits[(n % 10) + 1]>>

\* int(s) accepts s, for the strings in use: one or more decimal digits
IsInt(s) ==
  /\ s # <<>>
  /\ \A i \in 1..Len(s) : \E d \in 1..10 : Digits[d] = s[i]

RECURSIVE IntOf(_)
IntOf(s) ==
  IF s = <<>> THEN 0
  ELSE 10 * IntOf(SubSeq(s, 1, Len(s) - 1)) + (Ord(s[Len(s)]) - Ord("0"))

\* s.split(sep) for a one-character separator
RECURSIVE Split(_, _)
Split(s, sep) ==
  IF \A i \in 1..Len(s) : s[i] # sep THEN <<s>>
  ELSE LET i == CHOOSE j \in 1..Len(s) :
                  s[j] = sep /\ \A k \in 1..(j - 1) : s[k] # sep
       IN <<SubSeq(s, 1, i - 1)>> \o Split(SubSeq(s, i + 1, Len(s)), sep)

\* f"{name}:{i}:{what}"
Key(name, i, what) == name \o <<":">> \o Str(i) \o <<":">> \o what

UP   == <<"u", "p">>
DOWN == <<"d", "o", "w", "n">>
RANK == <<"r", "a", "n", "k">>

EMBED_FLAG == <<"<", "e", "m", "b", "e", "d", ">">>

\* the characters of the class names used as tags
Chars(tag) ==
  CASE tag = "Attention"      -> <<"A", "t", "t", "e", "n", "t", "i", "o", "n">>
    [] tag = "CrossAttention" -> <<"C", "r", "o", "s", "s", "A", "t", "t", "e", "n", "t", "i", "o", "n">>
    [] tag = "GEGLU"          -> <<"G", "E", "G", "L", "U">>
    [] tag = "ResnetBlock2D"  -> <<"R", "e", "s", "n", "e", "t", "B", "l", "o", "c", "k", "2", "D">>
    [] tag = "CLIPAttention"  -> <<"C", "L", "I", "P", "A", "t", "t", "e", "n", "t", "i", "o", "n">>
    [] tag = "MyBlock"        -> <<"M", "y", "B", "l", "o", "c", "k">>

\* json.dumps of a list of strings; the strings in use hold no character
\* that JSON escapes
RECURSIVE JsonItems(_)
JsonItems(l) ==
  IF l = <<>> THEN <<>>
  ELSE <<"\"">> \o Head(l) \o <<"\"">>
       \o (IF Len(l) > 1 THEN <<",", " ">> ELSE <<>>) \o JsonItems(Tail(l))

JsonDumps(l) == <<"[">> \o JsonItems(l) \o <<"]">>

\* json.loads accepts s, for the strings in use: a bracketed list of quoted
\* strings
IsJsonList(s) ==
  /\ Len(s) >= 2 /\ s[1] = "[" /\ s[Len(s)] = "]"
  /\ Cardinality({i \in 1..Len(s) : s[i] = "\""}) % 2 = 0

\* the strings between the quotes of s[i..], cur the string being read
RECURSIVE JsonScan(_, _, _, _)
JsonScan(s, i, inside, cur) ==
  IF i > Len(s) THEN <<>>
  ELSE IF s[i] = "\""
       THEN (IF inside THEN <<cur>> ELSE <<>>)
            \o JsonScan(s, i + 1, ~inside, <<>>)
  ELSE JsonScan(s, i + 1, inside, IF inside THEN Append(cur, s[i]) ELSE cur)

JsonLoads(s) == JsonScan(s, 1, FALSE, <<>>)

-----------------------------------------------------------------------------
(* A python dict: the (key, value) pairs in insertion order; assigning to  *)
(* a key that is present replaces its value where it stands.               *)

DictHas(d, k) == \E i \in 1..Len(d) : d[i].key = k

\* d[k] for a key that is present
DictAt(d, k) == d[CHOOSE i \in 1..Len(d) : d[i].key = k].val

\* d.get(k), <<>> standing for None
DictGet(d, k) == IF DictHas(d, k) THEN DictAt(d, k) ELSE <<>>

\* d[k] = v
DictPut(d, k, v) ==
  IF DictHas(d, k)
  THEN [i \in 1..Len(d) |-> IF d[i].key = k THEN [key |-> k, val |-> v] ELSE d[i]]
  ELSE Append(d, [key |-> k, val |-> v])

DictKeys(d) == [i \in 1..Len(d) |-> d[i].key]

-----------------------------------------------------------------------------
(* The container.  A file is the dict of tensors and the dict of metadata  *)
(* strings handed to safe_save; a reader sees the two dicts as written     *)
(* (the order in which keys() lists the tensors only decides which of two  *)
(* exceptions a reader raises first).                                      *)

Range(q) == {q[i] : i \in 1..Len(q)}

\* lines 408-418: the entries of pairs[i], pairs[i+1], ... of one component
RECURSIVE SaveLayers(_, _, _, _, _)
SaveLayers(st, name, h, pairs, i) ==
  IF i > Len(pairs) THEN st
  ELSE SaveLayers(
         [st EXCEPT
            !.metadata = DictPut(@, Key(name, i - 1, RANK),
                                 Str(h[pairs[i].down].nout)),
            !.weights = DictPut(
                          DictPut(@, Key(name, i - 1, UP), h[pairs[i].up].weight),
                          Key(name, i - 1, DOWN), h[pairs[i].down].weight)],
         name, h, pairs, i + 1)

\* lines 405-418 for one entry name: (model, target_replace_module) of
\* modelmap; extract_lora_ups_down raises when it locates nothing
SaveComponent(st, name, h, tags) ==
  IF st.err # "ok" THEN st
  ELSE IF ExtractLoraUpsDown(h, Range(tags)) = <<>> THEN Fail(st, "ValueError")
  ELSE SaveLayers(
         [st EXCEPT !.metadata =
            DictPut(@, name, JsonDumps([i \in 1..Len(tags) |-> Chars(tags[i])]))],
         name, h, ExtractLoraUpsDown(h, Range(tags)), 1)

\* lines 420-422
RECURSIVE SaveEmbeds(_, _, _)
SaveEmbeds(st, es, i) ==
  IF st.err # "ok" \/ i > Len(es) THEN st
  ELSE SaveEmbeds(
         [st EXCEPT !.metadata = DictPut(@, es[i].key, EMBED_FLAG),
                    !.weights = DictPut(@, es[i].key, es[i].val)],
         es, i + 1)

\* safe_save(weights, outpath, metadata): reached only when nothing raised
SafeSave(st) ==
  IF st.err = "ok" THEN [st EXCEPT !.written = TRUE]
  ELSE [NoFile EXCEPT !.err = st.err]

\* get_name = lambda k: k.split(":")[0]
GetName(k) == Split(k, ":")[1]

\* keys.sort(key=get_name), a stable sort: k goes behind every key whose
\* name is not greater than its own
RECURSIVE InsertByName(_, _)
InsertByName(sorted, k) ==
  IF sorted = <<>> THEN <<k>>
  ELSE IF StrLess(GetName(k), GetName(Head(sorted))) THEN <<k>> \o sorted
  ELSE <<Head(sorted)>> \o InsertByName(Tail(sorted), k)

RECURSIVE SortByName(_)
SortByName(keys) ==
  IF keys = <<>> THEN <<>>
  ELSE InsertByName(SortByName(SubSeq(keys, 1, Len(keys) - 1)), keys[Len(keys)])

\* itertools.groupby(keys, get_name): the runs of equal names
RECURSIVE GroupBy(_)
GroupBy(sorted) ==
  IF sorted = <<>> THEN <<>>
  ELSE LET n == CHOOSE j \in 1..Len(sorted) :
                  /\ \A k \in 1..j : GetName(sorted[k]) = GetName(sorted[1])
                  /\ j = Len(sorted) \/ GetName(sorted[j + 1]) # GetName(sorted[1])
       IN <<[name |-> GetName(sorted[1]), keys |-> SubSeq(sorted, 1, n)]>>
          \o GroupBy(SubSeq(sorted, n + 1, Len(sorted)))

\* nn.parameter.Parameter(safeloras.get_tensor(key)): the values read from
\* the file in a new object
FromFile(t) == [id |-> 0, shape |-> t.shape, data |-> t.data]

\* lines 535-543 once the key is split: g holds the lists ranks and weights
\* of the component being built
ParseEntry(g, name, idx, direction, t, metadata) ==
  IF ~DictHas(metadata, Key(name, idx, RANK)) THEN Fail(g, "KeyError")
  ELSE IF ~IsInt(DictAt(metadata, Key(name, idx, RANK)))
       THEN Fail(g, "ValueError")
  ELSE IF idx >= Len(g.ranks) THEN Fail(g, "IndexError")
  ELSE IF idx * 2 + (IF direction = DOWN THEN 1 ELSE 0) >= Len(g.weights)
       THEN Fail(g, "IndexError")
  ELSE [g EXCEPT
          !.ranks[idx + 1] = IntOf(DictAt(metadata, Key(name, idx, RANK))),
          !.weights[idx * 2 + (IF direction = DOWN THEN 1 ELSE 0) + 1] =
             FromFile(t)]

\* lines 531-543 for one key: _, idx, direction = key.split(":")
ParseKey(g, name, key, f) ==
  IF g.err # "ok" THEN g
  ELSE IF Len(Split(key, ":")) # 3 THEN Fail(g, "ValueError")
  ELSE IF ~IsInt(Split(key, ":")[2]) THEN Fail(g, "ValueError")
  ELSE ParseEntry(g, name, IntOf(Split(key, ":")[2]), Split(key, ":")[3],
                  DictAt(f.weights, key), f.metadata)

RECURSIVE ParseKeys(_, _, _, _, _)
ParseKeys(g, name, keys, i, f) ==
  IF i > Len(keys) THEN g
  ELSE ParseKeys(ParseKey(g, name, keys[i], f), name, keys, i + 1, f)

\* loras[name] = (weights, ranks, target)
AddParsed(st, name, target, g) ==
  IF g.err # "ok" THEN Fail(st, g.err)
  ELSE [st EXCEPT !.out = DictPut(@, name,
          [weights |-> g.weights, ranks |-> g.ranks, target |-> target])]

\* a reader that passes over a group without metadata instead of raising
ParseGroupSkipping(st, grp, f) ==
  IF st.err # "ok" THEN st
  ELSE IF DictGet(f.metadata, grp.name) = <<>> THEN st
  ELSE IF DictGet(f.metadata, grp.name) = EMBED_FLAG THEN st
  ELSE IF ~IsJsonList(DictGet(f.metadata, grp.name))
       THEN Fail(st, "JSONDecodeError")
  ELSE AddParsed(st, grp.name, JsonLoads(DictGet(f.metadata, grp.name)),
         ParseKeys([err |-> "ok",
                    ranks |-> [i \in 1..(Len(grp.keys) \div 2) |-> 4],
                    weights |-> [i \in 1..Len(grp.keys) |-> NoT]],
                   grp.name, grp.keys, 1, f))

\* lines 510-546 for one group of keys
ParseGroup(st, grp, f) ==
  IF st.err # "ok" THEN st
  ELSE IF DictGet(f.metadata, grp.name) = <<>> THEN Fail(st, "ValueError")
  ELSE IF DictGet(f.metadata, grp.name) = EMBED_FLAG THEN st
  ELSE IF ~IsJsonList(DictGet(f.metadata, grp.name))
       THEN Fail(st, "JSONDecodeError")
  ELSE AddParsed(st, grp.name, JsonLoads(DictGet(f.metadata, grp.name)),
         ParseKeys([err |-> "ok",
                    ranks |-> [i \in 1..(Len(grp.keys) \div 2) |-> 4],
                    weights |-> [i \in 1..Len(grp.keys) |-> NoT]],
                   grp.name, grp.keys, 1, f))

RECURSIVE ParseGroups(_, _, _, _)
ParseGroups(st, groups, i, f) ==
  IF i > Len(groups) THEN st
  ELSE ParseGroups(ParseGroup(st, groups[i], f), groups, i + 1, f)

\* what a parser hands back: nothing when it raised
Returned(st) ==
  [done |-> TRUE, err |-> st.err, out |-> IF st.err = "ok" THEN st.out ELSE <<>>]

\* parse_safeloras(safeloras)
parse_safeloras(f) ==
  Returned(ParseGroups([err |-> "ok", out |-> <<>>],
                       GroupBy(SortByName(DictKeys(f.weights))), 1, f))

\* lines 562-567: if not meta or meta != EMBED_FLAG: continue
RECURSIVE EmbedsOf(_, _, _)
EmbedsOf(st, f, i) ==
  IF i > Len(f.weights) THEN st
  ELSE EmbedsOf(
         IF DictGet(f.metadata, f.weights[i].key) = EMBED_FLAG
         THEN [st EXCEPT !.out = DictPut(@, f.weights[i].key, f.weights[i].val)]
         ELSE st,
         f, i + 1)

\* parse_safeloras_embeds(safeloras)
parse_safeloras_embeds(f) ==
  Returned(EmbedsOf([err |-> "ok", out |-> <<>>], f, 1))

-----------------------------------------------------------------------------
(* Writing a container and reading it back.                                *)

\* the models a container is written from: three that hold augmented layers
\* and one that holds none
SerModels == <<LoadedFlat.heap, LoadedNested.heap, LoadedCustom.heap, GraphFlat>>
TagLists == {<<"ResnetBlock2D", "Attention">>, <<"Attention">>, <<"MyBlock">>}
Names == {<<"a">>, <<"t">>, <<"a", ":", "b">>}
Tokens == {<<"s">>, <<"a">>, <<"a", ":", "0", ":", "u", "p">>}
EmbedTensor == Tensor(0, <<3>>, LAMBDA k : 7)

Components == [name : Names, model : 1..Len(SerModels), tags : TagLists]

\* modelmap: a dict, so no name twice
ModelMaps ==
  {<<>>} \cup {<<c>> : c \in Components}
         \cup {<<p[1], p[2]>> :
                 p \in {q \in Components \X Components : q[1].name # q[2].name}}

EmbedMaps == {<<>>} \cup {<<[key |-> t, val |-> EmbedTensor]>> : t \in Tokens}

RECURSIVE SaveComponents(_, _, _)
SaveComponents(st, modelmap, i) ==
  IF i > Len(modelmap) THEN st
  ELSE SaveComponents(
         SaveComponent(st, modelmap[i].name, SerModels[modelmap[i].model],
                       modelmap[i].tags),
         modelmap, i + 1)

\* save_safeloras_with_embeds(modelmap, embeds, outpath)
save_safeloras_with_embeds(modelmap, es) ==
  SafeSave(SaveEmbeds(SaveComponents(NoFile, modelmap, 1), es, 1))

SaveSafeloras ==
  /\ file = NoFile
  /\ \E modelmap \in ModelMaps, es \in EmbedMaps :
       /\ file' = save_safeloras_with_embeds(modelmap, es)
       /\ given' = [modelmap |-> modelmap, embeds |-> es]
  /\ UNCHANGED <<heap, tn, gid, hist, prev, last, parsed, embeds>>

ParseSafeloras ==
  /\ file.written
  /\ ~parsed.done
  /\ parsed' = parse_safeloras(file)
  /\ UNCHANGED <<heap, tn, gid, hist, prev, last, file, given, embeds>>

ParseSafelorasEmbeds ==
  /\ file.written
  /\ ~embeds.done
  /\ embeds' = parse_safeloras_embeds(file)
  /\ UNCHANGED <<heap, tn, gid, hist, prev, last, file, given, parsed>>

NextSer ==
  \/ SaveSafeloras
  \/ ParseSafeloras
  \/ ParseSafelorasEmbeds

SpecSer == InitEmpty /\ [][NextSer]_vars

-----------------------------------------------------------------------------
(* Vocabulary of the properties.                                           *)

\* the modules reachable from the model
Reach(h) == Range(Modules(h, 1))

\* the layer whose weight and bias a slot's layer computes with
BaseOf(h, m) ==
  IF h[m].cls \in LoraClasses THEN GetChild(h, m, BaseName(h[m].cls)) ELSE m

\* the slots of a model: every (parent, name) under which a reachable module
\* holds a child.  A container is never replaced, so a slot of one state is
\* the same position in every other state of the behaviour
AllSlots(h) ==
  UNION {{[parent |-> m, name |-> h[m].kids[k].name] : k \in 1..Len(h[m].kids)} :
         m \in Reach(h)}

\* the slots that are not the inside of an augmented layer
Slots(h) == {s \in AllSlots(h) : h[s.parent].cls \notin LoraClasses}

LayerAt(h, s) == GetChild(h, s.parent, s.name)

HasWeight(h, m) == h[m].cls \in LinearClasses \cup Conv2dClasses \cup LoraClasses

\* length of the input vector of the layer in a slot
InLen(h, m) == Flatten1(h[BaseOf(h, m)].weight).shape[2]

\* the zero vector and the unit vectors: two affine maps that agree on them
\* agree on every input
Basis(n) == {[i \in 1..n |-> IF i = j THEN 1 ELSE 0] : j \in 0..n}

SameValues(a, b) == a.shape = b.shape /\ a.data = b.data

-----------------------------------------------------------------------------
(* C1: after inject_trainable_lora or inject_trainable_lora_extended       *)
(* without preset weights, every slot the pass replaced holds an augmented *)
(* layer whose lora_up weight is all zero, and on every input that layer   *)
(* computes what the layer it replaced computed.                           *)

C1_InjectionPreservesOutput ==
  (last.op = "inject" /\ last.err = "ok") =>
    \A k \in 1..Len(last.placed) :
      LET s == [parent |-> last.placed[k].parent, name |-> last.placed[k].name]
      IN /\ heap[LayerAt(heap, s)].cls \in LoraClasses
         /\ IsZero(heap[GetChild(heap, LayerAt(heap, s), "lora_up")].weight)
         /\ \A x \in Basis(InLen(prev, LayerAt(prev, s))) :
              /\ ForwardDefined(heap, LayerAt(heap, s), x)
              /\ Forward(heap, LayerAt(heap, s), x)
                   = Forward(prev, LayerAt(prev, s), x)

\* C1's case on layers of exactly the dense and convolutional class: an
\* extended pass replaced a convolution and a dense layer
C1_Replaced ==
  /\ last.op = "inject" /\ last.ext /\ last.err = "ok"
  /\ \E k \in 1..Len(last.placed) :
       heap[last.placed[k].module].cls = "LoraInjectedConv2d"
  /\ \E k \in 1..Len(last.placed) :
       heap[last.placed[k].module].cls = "LoraInjectedLinear"

-----------------------------------------------------------------------------
(* C2: after an injection pass that returned, a second pass of the same    *)
(* function with the same target set locates no layer and replaces         *)
(* nothing: the model is left as it is.                                    *)

C2_NoDoubleAugmentation ==
  (last.op \in {"inject", "inject_preset"} /\ last.err = "ok") =>
    /\ FindModules(heap, 1, AncestorClass(last.tags),
                   IF last.ext THEN InjectExtendedSearch ELSE InjectSearch)
         = <<>>
    /\ \A r \in Ranks, noise \in Noise :
         /\ InjectLora(heap, tn, last.ext, last.tags, r, noise, FALSE, <<>>).placed
              = <<>>
         /\ InjectLora(heap, tn, last.ext, last.tags, r, noise, FALSE, <<>>).heap
              = heap

\* a first pass replaced a dense layer and a convolution, whose sub-layers
\* are of the searched classes
C2_FirstPassReplaced ==
  /\ last.op = "inject" /\ last.ext /\ last.err = "ok"
  /\ \E k \in 1..Len(last.placed) :
       heap[LayerAt(heap, last.placed[k])].cls = "LoraInjectedLinear"
  /\ \E k \in 1..Len(last.placed) :
       heap[LayerAt(heap, last.placed[k])].cls = "LoraInjectedConv2d"
  /\ \A s \in Slots(heap) : heap[LayerAt(heap, s)].cls \notin Conv2dClasses

-----------------------------------------------------------------------------
(* C3: a container written by save_safeloras_with_embeds from a non-empty  *)
(* modelmap is read back by parse_safeloras as the same components: for    *)
(* each one the tensors of its layers in order (up_i at 2i, down_i at      *)
(* 2i+1), the rank of each layer and the list of target tags.              *)

\* what the writer was given for one entry of modelmap
WrittenWeights(c) ==
  LET h == SerModels[c.model]
      pairs == ExtractLoraUpsDown(h, Range(c.tags))
  IN [j \in 1..(2 * Len(pairs)) |->
        IF j % 2 = 1 THEN h[pairs[(j + 1) \div 2].up].weight
        ELSE h[pairs[j \div 2].down].weight]

WrittenRanks(c) ==
  LET h == SerModels[c.model]
      pairs == ExtractLoraUpsDown(h, Range(c.tags))
  IN [i \in 1..Len(pairs) |-> h[pairs[i].down].nout]

ReadBack(c) ==
  /\ DictHas(parsed.out, c.name)
  /\ Len(DictAt(parsed.out, c.name).weights) = Len(WrittenWeights(c))
  /\ \A j \in 1..Len(WrittenWeights(c)) :
       SameValues(DictAt(parsed.out, c.name).weights[j], WrittenWeights(c)[j])
  /\ DictAt(parsed.out, c.name).ranks = WrittenRanks(c)
  /\ DictAt(parsed.out, c.name).target = [i \in 1..Len(c.tags) |-> Chars(c.tags[i])]

C3_BundleRoundTrip ==
  (file.written /\ parsed.done /\ given.modelmap # <<>>) =>
    /\ parsed.err = "ok"
    /\ \A c \in Range(given.modelmap) : ReadBack(c)

\* C3's case where the round trip works: two components, one of them with
\* layers of different ranks, written without embeds and read back
C3_TwoComponentsBack ==
  /\ file.written /\ parsed.done /\ parsed.err = "ok"
  /\ Len(given.modelmap) = 2 /\ given.embeds = <<>>
  /\ \A c \in Range(given.modelmap) : ReadBack(c)
  /\ \E c \in Range(given.modelmap) : Cardinality(Range(WrittenRanks(c))) > 1

-----------------------------------------------------------------------------
(* C4: after collapse_lora(model, 1.0) and then monkeypatch_remove_lora,   *)
(* every slot that held an augmented layer holds a plain layer that        *)
(* computes, on every input, what the augmented layer computed at scale    *)
(* 1.0, its weight being base + up x down.                                 *)

C4_CollapseThenRemove ==
  ( /\ hist = <<"collapse", "remove">> /\ last.err = "ok"
    /\ prev = CollapseLora(Models[gid].heap, Models[gid].tn, 1).heap ) =>
    \A s \in Slots(Models[gid].heap) :
      heap[s.parent].cls \notin LoraClasses
      /\ Models[gid].heap[LayerAt(Models[gid].heap, s)].cls \in LoraClasses =>
        /\ heap[LayerAt(heap, s)].cls \in LinearClasses \cup Conv2dClasses
        /\ \A x \in Basis(InLen(Models[gid].heap, LayerAt(Models[gid].heap, s))) :
             Forward(heap, LayerAt(heap, s), x)
               = Forward(Models[gid].heap, LayerAt(Models[gid].heap, s), x)

\* C4's case where the equivalence holds: the corrections of the model
\* loaded under the built-in tags, none of them nested, folded and removed
C4_FoldedAndRemoved ==
  /\ hist = <<"collapse", "remove">> /\ last.err = "ok"
  /\ prev = CollapseLora(Models[gid].heap, Models[gid].tn, 1).heap
  /\ Models[gid] = LoadedFlat
  /\ \A s \in Slots(heap) :
       /\ heap[LayerAt(heap, s)].cls \notin LoraClasses
       /\ HasWeight(heap, LayerAt(heap, s)) =>
            \A x \in Basis(InLen(heap, LayerAt(heap, s))) :
              Forward(heap, LayerAt(heap, s), x)
                = Forward(Models[gid].heap, LayerAt(Models[gid].heap, s), x)

-----------------------------------------------------------------------------
(* C5: for both augmented layer classes and every pair of widths, the      *)
(* constructor called with r > min(in, out) raises and creates no layer,   *)
(* and called with r = min(in, out) returns a layer of that rank.          *)

C5_RankBound ==
  last.op = "construct" =>
    /\ last.args.r > Min(last.args.nin, last.args.nout) =>
         last.err = "ValueError" /\ heap = prev
    /\ last.args.r = Min(last.args.nin, last.args.nout) =>
         /\ last.err = "ok"
         /\ heap[Len(heap)].cls = last.args.variant
         /\ heap[GetChild(heap, Len(heap), "lora_down")].nout = last.args.r
         /\ heap[GetChild(heap, Len(heap), "lora_up")].nin = last.args.r
         /\ heap[GetChild(heap, Len(heap), "lora_down")].weight.shape[1]
              = last.args.r

\* a convolutional layer of unequal widths refused at r = min + 1
C5_Refused ==
  /\ last.op = "construct" /\ last.err = "ValueError"
  /\ last.args.variant = "LoraInjectedConv2d"
  /\ last.args.nin # last.args.nout
  /\ last.args.r = Min(last.args.nin, last.args.nout) + 1

-----------------------------------------------------------------------------
(* C6: on a graph that is not modified meanwhile the locator yields its    *)
(* matches in depth-first pre-order of the model's tree: each yielded      *)
(* layer comes later in the pre-order walk of the model than the one       *)
(* yielded before it.  (That two invocations yield the same sequence is    *)
(* then immediate: the locator reads nothing but the graph.)               *)

PreOrderIndex(h, m) ==
  CHOOSE k \in 1..Len(Modules(h, 1)) : Modules(h, 1)[k] = m

InPreOrder(h, found) ==
  \A i \in 1..Len(found), j \in 1..Len(found) :
    i < j => PreOrderIndex(h, found[i].module) < PreOrderIndex(h, found[j].module)

C6_LocatorOrder ==
  \A tags \in TagSets,
     search \in {InjectSearch, InjectExtendedSearch, ReplaceSearch,
                 ReplaceExtendedSearch, AddSearch, LoraClasses} :
    InPreOrder(heap, FindModules(heap, 1, AncestorClass(tags), search))

\* C6's case where the order is the pre-order: three layers located under
\* one tagged block
C6_ThreeUnderOneBlock ==
  /\ Len(FindModules(heap, 1, AncestorClass({"ResnetBlock2D"}),
                     InjectExtendedSearch)) = 3
  /\ InPreOrder(heap, FindModules(heap, 1, AncestorClass({"ResnetBlock2D"}),
                                  InjectExtendedSearch))

-----------------------------------------------------------------------------
(* C7: when a container written from components and embed tokens is read,  *)
(* parse_safeloras_embeds returns every token with its tensor,             *)
(* parse_safeloras returns no token as a component and no embed tensor     *)
(* among a component's tensors, and every component comes back with the    *)
(* ranks that were written.                                                *)

C7_EmbedSeparation ==
  ( /\ file.written /\ parsed.done /\ embeds.done
    /\ given.modelmap # <<>> /\ given.embeds # <<>> ) =>
    /\ embeds.err = "ok" /\ parsed.err = "ok"
    /\ \A e \in Range(given.embeds) :
         /\ DictHas(embeds.out, e.key)
         /\ SameValues(DictAt(embeds.out, e.key), e.val)
         /\ ~DictHas(parsed.out, e.key)
         /\ \A c \in Range(parsed.out) : \A j \in 1..Len(c.val.weights) :
              ~SameValues(c.val.weights[j], e.val)
    /\ \A c \in Range(given.modelmap) :
         /\ DictHas(parsed.out, c.name)
         /\ DictAt(parsed.out, c.name).ranks = WrittenRanks(c)

\* C7's case where the embed stays apart: two components and a token that
\* is no component's name and no tensor key
C7_TokenApart ==
  /\ file.written /\ parsed.done /\ embeds.done
  /\ Len(given.modelmap) = 2 /\ Len(given.embeds) = 1
  /\ DictKeys(embeds.out) = <<given.embeds[1].key>>
  /\ \A c \in Range(given.modelmap) :
       /\ DictHas(parsed.out, c.name)
       /\ DictAt(parsed.out, c.name).ranks = WrittenRanks(c)
  /\ Len(parsed.out) = 2

-----------------------------------------------------------------------------
(* C8: after monkeypatch_remove_lora returned, no augmented layer is       *)
(* reachable from the model: every slot that held one holds a plain layer  *)
(* of the matching kind, and no lora_down or lora_up is left.              *)

C8_RemoveLeavesNoWrapper ==
  (last.op = "remove" /\ last.err = "ok") =>
    /\ \A m \in Reach(heap) : heap[m].cls \notin LoraClasses
    /\ \A s \in Slots(prev) :
         prev[LayerAt(prev, s)].cls \in LoraClasses =>
           heap[LayerAt(heap, s)].cls =
             (IF prev[LayerAt(prev, s)].cls = "LoraInjectedLinear"
              THEN "Linear" ELSE "Conv2d")
    /\ \A s \in AllSlots(heap) : s.name \notin {"lora_up", "lora_down"}

\* C8's case where removal is complete: wrappers nested two tagged blocks
\* deep, dense and convolutional, all replaced by plain layers
C8_NestedRemoved ==
  /\ last.op = "remove" /\ last.err = "ok"
  /\ Cardinality({s \in Slots(prev) :
                    prev[LayerAt(prev, s)].cls \in LoraClasses}) = 3
  /\ \A m \in Reach(heap) : heap[m].cls \notin LoraClasses

-----------------------------------------------------------------------------
(* C9: on a model without augmented layers, an injection followed by any   *)
(* setScale, accumulate and replaceExisting calls and then a removal       *)
(* gives back the tree the model had: the same slots, a layer of the same  *)
(* kind in each and the same weight and bias values.                       *)

Kind(cls) ==
  IF cls \in LinearClasses THEN "dense"
  ELSE IF cls \in Conv2dClasses THEN "conv" ELSE cls

NoCollapseRun ==
  /\ Len(hist) >= 2
  /\ hist[1] \in {"inject", "inject_preset"}
  /\ hist[Len(hist)] = "remove"
  /\ \A i \in 2..(Len(hist) - 1) : hist[i] \in {"tune", "add", "replace"}
  /\ last.err = "ok"
  /\ \A m \in Reach(Models[gid].heap) : Models[gid].heap[m].cls \notin LoraClasses

C9_RemoveInvertsInjection ==
  NoCollapseRun =>
    /\ AllSlots(heap) = AllSlots(Models[gid].heap)
    /\ \A s \in AllSlots(Models[gid].heap) :
         /\ LayerAt(heap, s) # 0
         /\ Kind(heap[LayerAt(heap, s)].cls)
              = Kind(Models[gid].heap[LayerAt(Models[gid].heap, s)].cls)
         /\ SameValues(heap[LayerAt(heap, s)].weight,
                       Models[gid].heap[LayerAt(Models[gid].heap, s)].weight)
         /\ SameValues(heap[LayerAt(heap, s)].bias,
                       Models[gid].heap[LayerAt(Models[gid].heap, s)].bias)

\* C9's case where removal undoes injection: an extended injection that
\* wrapped a convolution and dense layers, then the removal
C9_InjectedThenRemoved ==
  /\ NoCollapseRun
  /\ Models[gid] = Plain(GraphNested)
  /\ Len(last.placed) = 3
  /\ AllSlots(heap) = AllSlots(Models[gid].heap)
  /\ \A s \in AllSlots(heap) :
       SameValues(heap[LayerAt(heap, s)].weight,
                  Models[gid].heap[LayerAt(Models[gid].heap, s)].weight)

-----------------------------------------------------------------------------
(* C10: across injection, replaceExisting and remove calls the layer in    *)
(* every slot of the model computes with the very weight and bias tensor   *)
(* objects the layer of that slot held before the calls.                   *)

SubstitutionsOnly ==
  /\ hist # <<>>
  /\ \A i \in 1..Len(hist) :
       hist[i] \in {"inject", "inject_preset", "replace", "remove"}

C10_BaseTensorsShared ==
  SubstitutionsOnly =>
    \A s \in Slots(Models[gid].heap) :
      HasWeight(Models[gid].heap, LayerAt(Models[gid].heap, s)) =>
        /\ HasWeight(heap, LayerAt(heap, s))
        /\ heap[BaseOf(heap, LayerAt(heap, s))].weight.id
             = Models[gid].heap[BaseOf(Models[gid].heap,
                                       LayerAt(Models[gid].heap, s))].weight.id
        /\ heap[BaseOf(heap, LayerAt(heap, s))].bias.id
             = Models[gid].heap[BaseOf(Models[gid].heap,
                                       LayerAt(Models[gid].heap, s))].bias.id

\* C10's case where the tensors are shared: a layer with a bias wrapped by
\* an injection, rebuilt by replaceExisting, its base tensors still the
\* model's own
C10_WrappedTwice ==
  /\ hist = <<"inject", "replace">> /\ last.err = "ok"
  /\ Models[gid] = Plain(GraphFlat)
  /\ \E k \in 1..Len(last.placed) :
       /\ prev[LayerAt(prev, last.placed[k])].cls = "LoraInjectedLinear"
       /\ LayerAt(prev, last.placed[k]) # LayerAt(heap, last.placed[k])
       /\ heap[BaseOf(heap, LayerAt(heap, last.placed[k]))].bias.id
            = Models[gid].heap[LayerAt(Models[gid].heap, last.placed[k])].bias.id
       /\ heap[BaseOf(heap, LayerAt(heap, last.placed[k]))].bias.id # 0

-----------------------------------------------------------------------------
(* C11: collapse_lora(model, alpha) updates every augmented layer          *)
(* reachable from the model, whatever block it sits under: its base weight *)
(* after the call holds the values base + alpha * (up x down) of before    *)
(* the call, the product taken on the flattened projections.               *)

\* up x down of the augmented layer m is defined and fits the base weight
ProductDefined(h, m) ==
  LET up   == Flatten1(h[GetChild(h, m, "lora_up")].weight)
      down == Flatten1(h[GetChild(h, m, "lora_down")].weight)
  IN /\ up.shape[2] = down.shape[1]
     /\ up.shape[1] * down.shape[2] = Numel(h[BaseOf(h, m)].weight.shape)

\* the values of base + alpha * (up x down)
FoldedValues(h, m, alpha) ==
  LET up   == Flatten1(h[GetChild(h, m, "lora_up")].weight)
      down == Flatten1(h[GetChild(h, m, "lora_down")].weight)
  IN AddScaled(h[BaseOf(h, m)].weight, alpha, MatMul(up, down)).data

C11_CollapseUpdatesEvery ==
  (last.op = "collapse" /\ last.err = "ok") =>
    \A m \in Reach(prev) :
      prev[m].cls \in LoraClasses =>
        /\ ProductDefined(prev, m)
        /\ heap[BaseOf(heap, m)].weight.shape = prev[BaseOf(prev, m)].weight.shape
        /\ heap[BaseOf(heap, m)].weight.data = FoldedValues(prev, m, last.args.alpha)

\* C11's case where every layer is updated: the two dense corrections under
\* one built-in block folded at ratio 2, each changing its base weight
C11_BothFolded ==
  /\ hist = <<"collapse">> /\ last.err = "ok" /\ last.args.alpha = 2
  /\ Models[gid] = LoadedFlat
  /\ Len(last.placed) = 2
  /\ \A m \in Reach(prev) :
       prev[m].cls \in LoraClasses =>
         /\ heap[BaseOf(heap, m)].weight.data = FoldedValues(prev, m, 2)
         /\ heap[BaseOf(heap, m)].weight.data # prev[BaseOf(prev, m)].weight.data

-----------------------------------------------------------------------------
(* C12: collapse_lora folds in place: for every layer it folded, the base  *)
(* weight after the call is the tensor object (the same Parameter          *)
(* identity) the base layer held before the call.                          *)

C12_CollapseInPlace ==
  (last.op = "collapse" /\ last.err = "ok") =>
    \A k \in 1..Len(last.placed) :
      heap[BaseOf(heap, last.placed[k].module)].weight.id
        = prev[BaseOf(prev, last.placed[k].module)].weight.id

\* C12's case: a dense and a convolutional correction were folded, the
\* values of both base weights changed
C12_FoldedBoth ==
  /\ last.op = "collapse" /\ last.err = "ok"
  /\ \E k \in 1..Len(last.placed) :
       /\ heap[last.placed[k].module].cls = "LoraInjectedLinear"
       /\ heap[BaseOf(heap, last.placed[k].module)].weight.data
            # prev[BaseOf(prev, last.placed[k].module)].weight.data
  /\ \E k \in 1..Len(last.placed) :
       /\ heap[last.placed[k].module].cls = "LoraInjectedConv2d"
       /\ heap[BaseOf(heap, last.placed[k].module)].weight.data
            # prev[BaseOf(prev, last.placed[k].module)].weight.data

-----------------------------------------------------------------------------
(* C13: after monkeypatch_add_lora(model, incoming, tags, alpha, beta)     *)
(* returned, the i-th augmented layer under tags in traversal order, dense *)
(* or convolutional, has up = old_up * beta + incoming[2i] * alpha and     *)
(* down = old_down * beta + incoming[2i+1] * alpha (counting from 0), and  *)
(* every base weight of the model is the tensor it was.                    *)

\* old * beta + inc * alpha is defined: equal shapes, or 2-D shapes that
\* broadcast
BlendDefined(old, inc) == old.shape = inc.shape \/ BroadcastOK(inc, old)

BlendedValues(old, beta, inc, alpha) ==
  IF old.shape = inc.shape
  THEN [id |-> 0, shape |-> old.shape,
        data |-> [k \in 1..Len(old.data) |-> old.data[k] * beta + inc.data[k] * alpha]]
  ELSE Blend(inc, alpha, old, beta)

C13_Accumulate ==
  (last.op = "add" /\ last.err = "ok") =>
    LET found == FindModules(prev, 1, AncestorClass(last.tags), LoraClasses)
        inc   == Incoming(last.args.kinds, last.args.ranks)
        Up(i)   == GetChild(prev, found[i].module, "lora_up")
        Down(i) == GetChild(prev, found[i].module, "lora_down")
    IN /\ \A i \in 1..Len(found) :
            ( /\ 2 * i <= Len(inc)
              /\ BlendDefined(prev[Up(i)].weight, inc[2 * i - 1])
              /\ BlendDefined(prev[Down(i)].weight, inc[2 * i]) ) =>
              /\ SameValues(heap[Up(i)].weight,
                            BlendedValues(prev[Up(i)].weight, last.args.beta,
                                          inc[2 * i - 1], last.args.alpha))
              /\ SameValues(heap[Down(i)].weight,
                            BlendedValues(prev[Down(i)].weight, last.args.beta,
                                          inc[2 * i], last.args.alpha))
       /\ \A s \in Slots(prev) :
            HasWeight(prev, LayerAt(prev, s)) =>
              heap[BaseOf(heap, LayerAt(heap, s))].weight
                = prev[BaseOf(prev, LayerAt(prev, s))].weight

\* C13's case where the blend is as described: two dense corrections under
\* one block, both blended at alpha 2 with the pair of their position
C13_TwoBlended ==
  /\ last.op = "add" /\ last.err = "ok" /\ last.args.alpha = 2
  /\ Len(last.placed) = 2
  /\ \A k \in 1..2 :
       /\ heap[GetChild(heap, last.placed[k].module, "lora_up")].weight
            # prev[GetChild(prev, last.placed[k].module, "lora_up")].weight
       /\ SameValues(
            heap[GetChild(heap, last.placed[k].module, "lora_down")].weight,
            BlendedValues(
              prev[GetChild(prev, last.placed[k].module, "lora_down")].weight,
              last.args.beta,
              Incoming(last.args.kinds, last.args.ranks)[2 * k],
              last.args.alpha))

-----------------------------------------------------------------------------
(* C14: after tune_lora_scale(model, a) the scale of every augmented layer *)
(* reachable from the model is a, and nothing else has changed: the same   *)
(* objects, children, weights and biases, and every module that is not an  *)
(* augmented layer as it was.                                              *)

C14_SetScaleFrame ==
  last.op = "tune" =>
    /\ \A m \in Reach(heap) :
         heap[m].cls \in LoraClasses => heap[m].scale = last.args.alpha
    /\ Len(heap) = Len(prev)
    /\ \A m \in 1..Len(prev) :
         /\ [heap[m] EXCEPT !.scale = prev[m].scale] = prev[m]
         /\ prev[m].cls \notin LoraClasses => heap[m] = prev[m]

\* a dense and a convolutional augmented layer, one of them two tagged
\* blocks deep, taken from scale 1 to scale 2
C14_ScaledBoth ==
  /\ last.op = "tune" /\ last.args.alpha = 2
  /\ \E m \in Reach(heap) :
       /\ heap[m].cls = "LoraInjectedLinear"
       /\ prev[m].scale = 1 /\ heap[m].scale = 2
  /\ \E m \in Reach(heap) :
       /\ heap[m].cls = "LoraInjectedConv2d"
       /\ prev[m].scale = 1 /\ heap[m].scale = 2

-----------------------------------------------------------------------------
(* C15: an injection with preset tensors, or a replacement, that is given  *)
(* a list whose length is not twice the number of layers the pass locates  *)
(* raises: a call that returned was given exactly two tensors per located  *)
(* layer.                                                                  *)

C15_CountMismatchRaises ==
  (last.op \in {"inject_preset", "replace"} /\ last.err = "ok") =>
    Len(Incoming(last.args.kinds, last.args.ranks)) = 2 * Len(last.yielded)

\* C15's case where the mismatch is an error: a replacement handed fewer
\* pairs than the layers it locates ends with python's IndexError, after it
\* replaced a layer
C15_TooFewRaised ==
  /\ last.op = "replace" /\ ~last.ext /\ last.err = "IndexError"
  /\ last.placed # <<>>
  /\ Len(Incoming(last.args.kinds, last.args.ranks))
       < 2 * Len(FindModules(prev, 1, AncestorClass(last.tags), ReplaceSearch))

-----------------------------------------------------------------------------
(* C16: when the extended replacement comes to a located layer while the   *)
(* next tensor of the list is of the other shape class (2-D for a          *)
(* convolution, 4-D for a dense layer), the call raises.                   *)

\* the number of dimensions the extended replacement asks of loras[0] for a
\* layer of class cls (0: a class neither branch takes)
WantedNdim(cls) ==
  IF cls \in {"Linear", "LoraInjectedLinear"} THEN 2
  ELSE IF cls \in {"Conv2d", "LoraInjectedConv2d"} THEN 4 ELSE 0

\* the pass over the located layers classes[i..], the list at inc[j..],
\* comes to a layer whose next tensor is of the other shape class
RECURSIVE MismatchMet(_, _, _, _)
MismatchMet(classes, i, inc, j) ==
  IF i > Len(classes) \/ j > Len(inc) THEN FALSE
  ELSE IF WantedNdim(classes[i]) = 0 THEN FALSE
  ELSE IF Ndim(inc[j]) # WantedNdim(classes[i]) THEN TRUE
  ELSE MismatchMet(classes, i + 1, inc, j + 2)

ShapeClassMismatch ==
  /\ last.op = "replace" /\ last.ext
  /\ LET found == FindModules(prev, 1, AncestorClass(last.tags),
                              ReplaceExtendedSearch)
     IN MismatchMet([i \in 1..Len(found) |-> prev[found[i].module].cls], 1,
                    Incoming(last.args.kinds, last.args.ranks), 1)

C16_ShapeMismatchRaises == ShapeClassMismatch => last.err # "ok"

\* C16's case where the call does fail: a 2-D pair offered for a
\* convolution, and the call ends with an exception further on
C16_MismatchThenRaised ==
  /\ ShapeClassMismatch
  /\ last.err = "IndexError"
  /\ \E k \in 1..Len(last.yielded) :
       /\ heap[last.yielded[k].module].cls = "Conv2d"
       /\ \A p \in 1..Len(last.placed) :
            last.placed[p].name # last.yielded[k].name

-----------------------------------------------------------------------------
(* Reading a container that was not left as the writer wrote it.           *)

\* load_safeloras(path): safe_open, then parse_safeloras
load_safeloras(f) == parse_safeloras(f)

\* load_safeloras_both(path): the pair of both parsers' results; an
\* exception of the first leaves nothing returned
load_safeloras_both(f) ==
  IF parse_safeloras(f).err # "ok"
  THEN <<parse_safeloras(f), Returned([err |-> parse_safeloras(f).err])>>
  ELSE <<parse_safeloras(f), parse_safeloras_embeds(f)>>

\* a tensor added to a file under a key the writer did not write
WithStray(f, k) ==
  [f EXCEPT !.weights = Append(@, [key |-> k, val |-> EmbedTensor])]

\* a file that lost the metadata entry k
WithoutMeta(f, k) ==
  LET Other(e) == e.key # k
  IN [f EXCEPT !.metadata = SelectSeq(@, Other)]

\* keys whose prefix sorts before, between and behind the component names
StrayKeys ==
  { <<"A", ":", "0", ":", "u", "p">>, <<"b", ":", "0", ":", "u", "p">>,
    <<"z", ":", "0", ":", "d", "o", "w", "n">>, <<"z">> }

\* the containers on disk: written from one or two components of the first
\* model, with or without an embed, then left intact, given a stray tensor
\* or robbed of one metadata entry
WrittenFiles ==
  {f \in {save_safeloras_with_embeds(mm, es) :
            mm \in {m \in ModelMaps :
                      /\ m # <<>>
                      /\ \A i \in 1..Len(m) :
                           m[i].model = 1 /\ m[i].tags = <<"Attention">>},
            es \in EmbedMaps} : f.written}

Containers ==
  WrittenFiles
    \cup {WithStray(f, k) : f \in WrittenFiles, k \in StrayKeys}
    \cup UNION {{WithoutMeta(f, n) : n \in {m \in Names : DictHas(f.metadata, m)}} :
                f \in WrittenFiles}

InitLoad ==
  /\ heap = <<>>
  /\ tn = 0
  /\ gid = 0
  /\ hist = <<>>
  /\ prev = <<>>
  /\ last = NoCall
  /\ file \in Containers
  /\ given = NoGiven
  /\ parsed = NoParse
  /\ embeds = NoParse

LoadSafeloras ==
  /\ hist = <<>>
  /\ parsed' = load_safeloras(file)
  /\ hist' = <<"load_safeloras">>
  /\ UNCHANGED <<heap, tn, gid, prev, last, file, given, embeds>>

LoadSafelorasBoth ==
  /\ hist = <<>>
  /\ parsed' = load_safeloras_both(file)[1]
  /\ embeds' = load_safeloras_both(file)[2]
  /\ hist' = <<"load_safeloras_both">>
  /\ UNCHANGED <<heap, tn, gid, prev, last, file, given>>

NextLoad ==
  \/ LoadSafeloras
  \/ LoadSafelorasBoth

SpecLoad == InitLoad /\ [][NextLoad]_vars

-----------------------------------------------------------------------------
(* C17: when some tensor key of the container has a component prefix that  *)
(* has no metadata entry, load_safeloras and load_safeloras_both raise and *)
(* return nothing, wherever the key sorts among the other keys.            *)

\* the tensor keys whose prefix has no metadata entry
Orphans(f) ==
  {k \in Range(DictKeys(f.weights)) : ~DictHas(f.metadata, GetName(k))}

C17_CorruptAborts ==
  (parsed.done /\ Orphans(file) # {}) =>
    /\ parsed.err # "ok" /\ parsed.out = <<>>
    /\ hist = <<"load_safeloras_both">> => embeds.err # "ok" /\ embeds.out = <<>>

\* an orphan key that sorts behind the keys of a component that reads well:
\* that component was parsed before the read was abandoned
C17_LateOrphanAborted ==
  /\ parsed.done /\ parsed.err = "ValueError" /\ parsed.out = <<>>
  /\ \E k \in Orphans(file) :
       \E n \in Names :
         /\ StrLess(n, GetName(k))
         /\ DictHas(file.metadata, n)
         /\ IsJsonList(DictAt(file.metadata, n))
         /\ parse_safeloras(
              [file EXCEPT !.weights =
                 SelectSeq(@, LAMBDA e : GetName(e.key) = n)]).out # <<>>

-----------------------------------------------------------------------------
(* Converting legacy lists [up_0, down_0, up_1, down_1, ...] into a        *)
(* container.                                                              *)

\* lines 463-471: the entries of lora[i], lora[i+1], ... of one component;
\* enumerate counts from 0, the layer index is that count // 2
RECURSIVE ConvertLayers(_, _, _, _, _)
ConvertLayers(st, name, lora, r, i) ==
  IF i > Len(lora) THEN st
  ELSE ConvertLayers(
         IF (i - 1) % 2 = 0
         THEN [st EXCEPT
                 !.metadata = DictPut(@, Key(name, (i - 1) \div 2, RANK), Str(r)),
                 !.weights = DictPut(@, Key(name, (i - 1) \div 2, UP), lora[i])]
         ELSE [st EXCEPT
                 !.weights = DictPut(@, Key(name, (i - 1) \div 2, DOWN), lora[i])],
         name, lora, r, i + 1)

\* lines 457-471 for the entries i, i+1, ... of modelmap:
\* name -> (path, target_replace_module, r), the list being what torch.load
\* reads at path
RECURSIVE ConvertComponents(_, _, _)
ConvertComponents(st, modelmap, i) ==
  IF i > Len(modelmap) THEN st
  ELSE ConvertComponents(
         ConvertLayers(
           [st EXCEPT !.metadata =
              DictPut(@, modelmap[i].name,
                      JsonDumps([k \in 1..Len(modelmap[i].tags) |->
                                   Chars(modelmap[i].tags[k])]))],
           modelmap[i].name,
           Incoming(modelmap[i].kinds, Uniform(modelmap[i].kinds, 1)),
           modelmap[i].r, 1),
         modelmap, i + 1)

\* convert_loras_to_safeloras_with_embeds(modelmap, embeds, outpath)
convert_loras_to_safeloras_with_embeds(modelmap, es) ==
  SafeSave(SaveEmbeds(ConvertComponents(NoFile, modelmap, 1), es, 1))

\* the legacy components: lists of one and of two pairs, with the rank the
\* caller states for them
LegacyRanks == {1, 12}
LegacyComponents ==
  [name : Names, kinds : {<<"d">>, <<"d", "c">>}, r : LegacyRanks,
   tags : {<<"Attention">>, <<"ResnetBlock2D", "Attention">>}]

LegacyMaps ==
  {<<>>} \cup {<<c>> : c \in LegacyComponents}
         \cup {<<p[1], p[2]>> :
                 p \in {q \in LegacyComponents \X LegacyComponents :
                          q[1].name # q[2].name}}

ConvertLoras ==
  /\ file = NoFile
  /\ \E modelmap \in LegacyMaps, es \in EmbedMaps :
       /\ file' = convert_loras_to_safeloras_with_embeds(modelmap, es)
       /\ given' = [modelmap |-> modelmap, embeds |-> es]
  /\ UNCHANGED <<heap, tn, gid, hist, prev, last, parsed, embeds>>

NextConv ==
  \/ ConvertLoras
  \/ ParseSafeloras
  \/ ParseSafelorasEmbeds

SpecConv == InitEmpty /\ [][NextConv]_vars

-----------------------------------------------------------------------------
(* C18: a legacy list of n >= 1 pairs converted with rank r and a target   *)
(* set comes back from parse_safeloras as the same 2n tensors in the same  *)
(* alternating order, n ranks all equal to r, and the tag list supplied.   *)

ConvertedBack(c) ==
  LET lora == Incoming(c.kinds, Uniform(c.kinds, 1))
  IN /\ DictHas(parsed.out, c.name)
     /\ Len(DictAt(parsed.out, c.name).weights) = Len(lora)
     /\ \A j \in 1..Len(lora) :
          SameValues(DictAt(parsed.out, c.name).weights[j], lora[j])
     /\ DictAt(parsed.out, c.name).ranks = [i \in 1..Len(c.kinds) |-> c.r]
     /\ DictAt(parsed.out, c.name).target
          = [k \in 1..Len(c.tags) |-> Chars(c.tags[k])]

C18_LegacyConversion ==
  (file.written /\ parsed.done /\ given.modelmap # <<>>) =>
    /\ parsed.err = "ok"
    /\ \A c \in Range(given.modelmap) : ConvertedBack(c)

\* C18's case where nothing is lost: two legacy lists, one of two pairs,
\* one stated with the two-digit rank, converted without embeds and read
C18_TwoListsBack ==
  /\ file.written /\ parsed.done /\ parsed.err = "ok"
  /\ Len(given.modelmap) = 2 /\ given.embeds = <<>>
  /\ \A c \in Range(given.modelmap) : ConvertedBack(c)
  /\ \E c \in Range(given.modelmap) : Len(c.kinds) = 2 /\ c.r = 12

-----------------------------------------------------------------------------
(* C19: every triple (parent, name, module) the locator yields is          *)
(* well-formed: module is the layer registered on parent under the         *)
(* non-empty name, and parent is another node than module; for every       *)
(* graph, every search_class and every ancestor_class, None included.      *)

AncestorChoices == {NoAncestorClass} \cup {AncestorClass(t) : t \in TagSets}

SearchChoices ==
  {InjectSearch, InjectExtendedSearch, ReplaceSearch, ReplaceExtendedSearch,
   AddSearch, LoraClasses}

WellFormed(h, t) ==
  /\ t.name # ""
  /\ t.parent # t.module
  /\ GetChild(h, t.parent, t.name) = t.module

AllWellFormed(h, ac, search) ==
  LET found == FindModules(h, 1, ac, search)
  IN \A k \in 1..Len(found) : WellFormed(h, found[k])

C19_TriplesWellFormed ==
  \A ac \in AncestorChoices, search \in SearchChoices :
    AllWellFormed(heap, ac, search)

\* C19's case where it holds with ancestor_class omitted: the wrappers of an
\* augmented model searched over the whole graph, two or more of them found
C19_WrappersFoundUntagged ==
  /\ Len(FindModules(heap, 1, NoAncestorClass, LoraClasses)) >= 2
  /\ AllWellFormed(heap, NoAncestorClass, LoraClasses)
  /\ \E t \in TagSets :
       /\ Len(FindModules(heap, 1, AncestorClass(t), ReplaceExtendedSearch)) >= 2
       /\ AllWellFormed(heap, AncestorClass(t), ReplaceExtendedSearch)

-----------------------------------------------------------------------------
(* C20: positional correspondence in the replace passes: the i-th layer    *)
(* replaced in traversal order holds incoming pair i as its up and down    *)
(* weights and ranks[i] as its rank; hence the list extracted from an      *)
(* augmented model, replayed on the model as it was built, gives every     *)
(* located layer the up and down tensors and the rank of its counterpart.  *)

\* the rank a wrapper was built with: lora_down = nn.Linear(in_features, r)
\* or nn.Conv2d(in_channels, r, ...)
RankOf(h, m) == h[GetChild(h, m, "lora_down")].nout

\* the wrapper m holds the tensors up and down and the rank r
HoldsPair(h, m, up, down, r) ==
  /\ h[m].cls \in LoraClasses
  /\ SameValues(h[GetChild(h, m, "lora_up")].weight, up)
  /\ SameValues(h[GetChild(h, m, "lora_down")].weight, down)
  /\ RankOf(h, m) = r

Positional ==
  (last.op = "replace" /\ last.err = "ok") =>
    \A i \in 1..Len(last.placed) :
      HoldsPair(heap, last.placed[i].module,
                Incoming(last.args.kinds, last.args.ranks)[2 * i - 1],
                Incoming(last.args.kinds, last.args.ranks)[2 * i],
                last.args.ranks[i])

\* the extracted modules as the flat list [up_0, down_0, up_1, ...]
ExtractedList(h, tags) ==
  [j \in 1..(2 * Len(ExtractLoraUpsDown(h, tags))) |->
     IF j % 2 = 1 THEN h[ExtractLoraUpsDown(h, tags)[(j + 1) \div 2].up].weight
     ELSE h[ExtractLoraUpsDown(h, tags)[j \div 2].down].weight]

ExtractedRanks(h, tags) ==
  [i \in 1..Len(ExtractLoraUpsDown(h, tags)) |->
     RankOf(h, FindModules(h, 1, AncestorClass(tags), LoraClasses)[i].module)]

\* the extracted list of the model replayed on the model this behaviour
\* started from: by monkeypatch_or_replace_lora_extended when the list holds
\* the pair of a convolution wrapper, by monkeypatch_or_replace_lora when it
\* holds dense pairs only
Replayed(tags) ==
  ReplaceLora(Models[gid].heap, Models[gid].tn,
              \E t \in Range(FindModules(heap, 1, AncestorClass(tags), LoraClasses)) :
                 heap[t.module].cls = "LoraInjectedConv2d",
              tags,
              ExtractedList(heap, tags), TRUE, 0, ExtractedRanks(heap, tags))

ReplayGivesCounterparts(tags) ==
  /\ Replayed(tags).err = "ok"
  /\ \A t \in Range(FindModules(heap, 1, AncestorClass(tags), LoraClasses)) :
       HoldsPair(Replayed(tags).heap,
                 GetChild(Replayed(tags).heap, t.parent, t.name),
                 heap[GetChild(heap, t.module, "lora_up")].weight,
                 heap[GetChild(heap, t.module, "lora_down")].weight,
                 RankOf(heap, t.module))

\* the located wrappers hold tensors of their own kind: 2-D in a dense
\* wrapper, 4-D in a convolution wrapper
OwnKind(h, tags) ==
  \A t \in Range(FindModules(h, 1, AncestorClass(tags), LoraClasses)) :
    /\ Ndim(h[GetChild(h, t.module, "lora_up")].weight) = WantedNdim(h[t.module].cls)
    /\ Ndim(h[GetChild(h, t.module, "lora_down")].weight) = WantedNdim(h[t.module].cls)

\* an empty extraction is extract_lora_ups_down's ValueError: nothing to replay
Replay ==
  \A tags \in TagSets :
    (ExtractLoraUpsDown(heap, tags) # <<>> /\ OwnKind(heap, tags))
      => ReplayGivesCounterparts(tags)

C20_PositionalCorrespondence == Positional /\ Replay

\* C20's case: a replace with a rank list placed two or more layers, each
\* holding its own pair and rank, and the list extracted from the result
\* replays onto the model as built
C20_RankedReplaceReplayed ==
  /\ last.op = "replace" /\ last.err = "ok" /\ last.ext
  /\ last.args.ranks \in RankLists
  /\ Len(last.placed) >= 2
  /\ last.args.ranks[1] # last.args.ranks[2]
  /\ Positional
  /\ Len(ExtractLoraUpsDown(heap, last.tags)) >= 2
  /\ ReplayGivesCounterparts(last.tags)

-----------------------------------------------------------------------------
(* C21: the ancestor tags are a frame condition of the inject and replace  *)
(* passes: a call with tags T changes only slots of layers beneath a node  *)
(* whose class name is in T; every layer with no such ancestor, and its    *)
(* slot in its parent, is as it was before the call.                       *)

\* the modules at or beneath a node whose class name is in tags
Beneath(h, tags) ==
  UNION {Range(Modules(h, a)) : a \in {m \in Reach(h) : h[m].cls \in tags}}

\* the slot s holds the module it held, and that module and everything in
\* it is as it was
SlotKept(s) ==
  /\ LayerAt(heap, s) = LayerAt(prev, s)
  /\ \A m \in Range(Modules(prev, LayerAt(prev, s))) : heap[m] = prev[m]

C21_AncestorFrame ==
  last.op \in {"inject", "inject_preset", "replace"} =>
    \A s \in Slots(prev) :
      (HasWeight(prev, LayerAt(prev, s))
         /\ s.parent \notin Beneath(prev, last.tags)) => SlotKept(s)

\* C21's case: a call replaced two layers beneath the tags and the model
\* holds a dense layer outside them
C21_ReplacedBesideUntagged ==
  /\ last.op \in {"inject", "replace"} /\ last.err = "ok"
  /\ Len(last.placed) >= 2
  /\ \E s \in Slots(prev) :
       /\ s.parent \notin Beneath(prev, last.tags)
       /\ HasWeight(prev, LayerAt(prev, s))
       /\ SlotKept(s)

-----------------------------------------------------------------------------
(* C22: one invocation of the locator yields each matching layer at most   *)
(* once, for every graph and every ancestor_class, nested tagged           *)
(* ancestors and None included; so extract_lora_ups_down returns one       *)
(* (up, down) pair per augmented layer and a replace pass takes one pair   *)
(* per located layer.                                                      *)

YieldedOnce(found) ==
  \A i, j \in 1..Len(found) : found[i].module = found[j].module => i = j

\* the augmented layers beneath the tags
AugmentedBeneath(h, tags) ==
  {m \in Beneath(h, tags) : h[m].cls \in LoraClasses}

C22_YieldedAtMostOnce ==
  /\ \A ac \in AncestorChoices, search \in SearchChoices :
       YieldedOnce(FindModules(heap, 1, ac, search))
  /\ \A tags \in TagSets :
       Len(ExtractLoraUpsDown(heap, tags))
         = Cardinality(AugmentedBeneath(heap, tags))
  /\ (last.op = "replace" /\ last.err = "ok") =>
       /\ YieldedOnce(last.yielded)
       /\ Len(last.placed) = Cardinality({last.yielded[i].module :
                                            i \in 1..Len(last.yielded)})

\* C22's case where it holds: a replace pass over a block that is in no
\* other tagged block located two layers once each, took a pair for each,
\* and the extraction gives back two pairs
C22_TwoLocatedOnce ==
  /\ last.op = "replace" /\ last.err = "ok"
  /\ Len(last.yielded) = 2 /\ YieldedOnce(last.yielded)
  /\ Len(last.placed) = 2
  /\ Len(ExtractLoraUpsDown(heap, last.tags)) = 2
  /\ Cardinality(AugmentedBeneath(heap, last.tags)) = 2

-----------------------------------------------------------------------------
(* C23: no nested augmentation, in every reachable state of the model:     *)
(* after any sequence of inject, replace, add, tune, collapse and remove   *)
(* calls the base layer, lora_down and lora_up of every augmented layer    *)
(* are plain layers, never augmented layers.                               *)

PlainParts(h, m) ==
  /\ h[GetChild(h, m, BaseName(h[m].cls))].cls
       \in LinearClasses \cup Conv2dClasses
  /\ h[GetChild(h, m, "lora_down")].cls \in {"Linear", "Conv2d"}
  /\ h[GetChild(h, m, "lora_up")].cls \in {"Linear", "Conv2d"}

C23_NoNestedAugmentation ==
  \A m \in Reach(heap) : heap[m].cls \in LoraClasses => PlainParts(heap, m)

\* C23's case: a replace pass was handed an augmented layer and put a new
\* wrapper in its slot, and a second call followed
C23_WrapperReplaced ==
  /\ Len(hist) = 2 /\ hist[1] = "replace"
  /\ last.op \in {"inject", "replace"} /\ last.err = "ok"
  /\ \E i \in 1..Len(last.yielded) :
       /\ last.yielded[i].module <= Len(prev)
       /\ prev[last.yielded[i].module].cls \in LoraClasses
       /\ \E k \in 1..Len(last.placed) :
            /\ last.placed[k].parent = last.yielded[i].parent
            /\ last.placed[k].name = last.yielded[i].name
            /\ last.placed[k].module # last.yielded[i].module
            /\ PlainParts(heap, last.placed[k].module)

-----------------------------------------------------------------------------
(* C24: a replace pass resets the scale: when tune_lora_scale(model, a) is *)
(* followed by monkeypatch_or_replace_lora, or the extended pass, on the   *)
(* same model, every layer that call replaced has scale 1 afterwards.      *)

C24_ReplaceResetsScale ==
  (Len(hist) = 2 /\ hist[1] = "tune" /\ last.op = "replace") =>
    \A k \in 1..Len(last.placed) : heap[last.placed[k].module].scale = 1

\* C24's case: wrappers tuned to another scale than 1 were replaced, two
\* of them, and the layers now in their slots have scale 1
C24_TunedThenReplaced ==
  /\ Len(hist) = 2 /\ hist[1] = "tune" /\ last.op = "replace"
  /\ last.err = "ok"
  /\ Cardinality({k \in 1..Len(last.placed) :
                    LET old == GetChild(prev, last.placed[k].parent,
                                        last.placed[k].name)
                    IN /\ prev[old].cls \in LoraClasses
                       /\ prev[old].scale = 2
                       /\ heap[last.placed[k].module].scale = 1}) >= 2

-----------------------------------------------------------------------------
(* C25: in the extended inject and the extended replace every located      *)
(* layer is replaced by a newly constructed augmented layer built from     *)
(* that layer's own base weight and bias, a layer of a subclass of         *)
(* nn.Linear or nn.Conv2d included; so no two slots come to hold the same  *)
(* augmented-layer object and no slot receives a wrapper built for a       *)
(* layer visited before.                                                   *)

\* the layer put in slot p is a new wrapper around the weight and bias of
\* the layer the slot held before the call
BuiltFromOwn(p) ==
  LET old == BaseOf(prev, GetChild(prev, p.parent, p.name))
      new == BaseOf(heap, p.module)
  IN /\ p.module > Len(prev)
     /\ heap[p.module].cls \in LoraClasses
     /\ heap[new].weight.id = prev[old].weight.id
     /\ heap[new].bias.id = prev[old].bias.id

C25_OwnWrapperEach ==
  (last.op \in {"inject", "inject_preset", "replace"} /\ last.ext) =>
    /\ last.err # "UnboundLocalError"
    /\ last.err = "ok" =>
         /\ \A k \in 1..Len(last.placed) : BuiltFromOwn(last.placed[k])
         /\ \A s, t \in Slots(heap) :
              (heap[LayerAt(heap, s)].cls \in LoraClasses
                 /\ LayerAt(heap, s) = LayerAt(heap, t)) => s = t

\* C25's case where it holds: an extended pass over a dense layer and a
\* convolution of the two base classes themselves, each wrapped on its own
C25_DenseAndConvWrapped ==
  /\ last.op \in {"inject", "replace"} /\ last.ext /\ last.err = "ok"
  /\ \A k \in 1..Len(last.placed) : BuiltFromOwn(last.placed[k])
  /\ \E k \in 1..Len(last.placed) :
       heap[last.placed[k].module].cls = "LoraInjectedLinear"
  /\ \E k \in 1..Len(last.placed) :
       heap[last.placed[k].module].cls = "LoraInjectedConv2d"

-----------------------------------------------------------------------------
(* Loading a bundle of dense pairs only, as monkeypatch_or_replace_safeloras *)
(* does, into a model whose tagged block also holds convolutions.          *)

\* the layers of one block in declaration order: "d" an nn.Linear, "c" an
\* nn.Conv2d; every layout holds both kinds
Layouts ==
  {l \in UNION {[1..n -> {"d", "c"}] : n \in 2..3} :
     "d" \in Range(l) /\ "c" \in Range(l)}

LayerNames == <<"l1", "l2", "l3">>

\* a model with one Attention block of the layers of layout l
GraphOf(l, denseBias, convBias) ==
  << Container("UNet", <<Kid("blk", 2)>>),
     Container("Attention", [k \in 1..Len(l) |-> Kid(LayerNames[k], k + 2)]) >>
  \o [k \in 1..Len(l) |->
        IF l[k] = "d" THEN Dense(k + 2, "Linear", denseBias)
        ELSE Conv(k + 2, "Conv2d", convBias)]

InitDense ==
  /\ \E l \in Layouts, denseBias \in BOOLEAN, convBias \in BOOLEAN :
       /\ heap = GraphOf(l, denseBias, convBias)
       /\ prev = GraphOf(l, denseBias, convBias)
       /\ tn = 2 * (Len(l) + 2)
  /\ gid = 0
  /\ hist = <<>>
  /\ last = NoCall
  /\ NothingStored

\* the dense layers, plain or augmented, beneath the tags in traversal order
DenseLocated(h, tags) ==
  FindModules(h, 1, AncestorClass(tags), {"Linear", "LoraInjectedLinear"})

\* monkeypatch_or_replace_lora_extended(model, loras, target, r) with one
\* 2-D pair per dense layer beneath the tags, r a list of their ranks as
\* monkeypatch_or_replace_safeloras passes it, or one rank for all
ReplaceDenseOnly ==
  /\ Callable
  /\ \E r \in Ranks, rIsList \in BOOLEAN :
       LET kinds == [i \in 1..Len(DenseLocated(heap, DEFAULT_TARGET_REPLACE))
                       |-> "d"]
       IN Finish("replace", TRUE, DEFAULT_TARGET_REPLACE,
                 [r |-> r, kinds |-> kinds, ranks |-> Uniform(kinds, r)],
                 ReplaceLora(heap, tn, TRUE, DEFAULT_TARGET_REPLACE,
                             Incoming(kinds, Uniform(kinds, r)),
                             rIsList, r, Uniform(kinds, r)))

NextDense == ReplaceDenseOnly

SpecDense == InitDense /\ [][NextDense]_vars

-----------------------------------------------------------------------------
(* C26: given one pair of 2-D tensors per dense layer beneath the tags,    *)
(* monkeypatch_or_replace_lora_extended completes without error on a model *)
(* whose tagged block also holds convolutions, gives the i-th pair to the  *)
(* i-th dense layer and leaves every convolution plain, wherever the       *)
(* convolutions come in traversal order.                                   *)

DensePairsPlaced ==
  \A i \in 1..Len(DenseLocated(prev, last.tags)) :
    HoldsPair(heap,
              GetChild(heap, DenseLocated(prev, last.tags)[i].parent,
                       DenseLocated(prev, last.tags)[i].name),
              Incoming(last.args.kinds, last.args.ranks)[2 * i - 1],
              Incoming(last.args.kinds, last.args.ranks)[2 * i],
              last.args.ranks[i])

ConvsLeftPlain ==
  \A s \in Slots(prev) :
    prev[LayerAt(prev, s)].cls \in Conv2dClasses =>
      /\ LayerAt(heap, s) = LayerAt(prev, s)
      /\ heap[LayerAt(prev, s)] = prev[LayerAt(prev, s)]

C26_DenseOnlyBundleLoads ==
  last.op = "replace" =>
    /\ last.err = "ok"
    /\ DensePairsPlaced
    /\ ConvsLeftPlain

\* C26's case where it holds: a convolution between two dense layers, both
\* dense layers given their pair
C26_LoadedAroundConvs ==
  /\ last.op = "replace" /\ last.err = "ok"
  /\ Len(last.placed) = 2
  /\ Len(last.yielded) = 3
  /\ prev[last.yielded[1].module].cls = "Linear"
  /\ prev[last.yielded[2].module].cls = "Conv2d"
  /\ DensePairsPlaced /\ ConvsLeftPlain

-----------------------------------------------------------------------------
(* C27: in a written container embed entries and component entries have    *)
(* disjoint keys: for every modelmap and every embeds map the tensor key   *)
(* and the metadata key written for a token overwrite no component's       *)
(* metadata record or tensors, so parse_safeloras returns every component  *)
(* written and parse_safeloras_embeds every token, whatever strings the    *)
(* names and tokens are.                                                   *)

\* the container holds the record and the tensors written for component c
NotOverwritten(c) ==
  /\ DictHas(file.metadata, c.name)
  /\ DictAt(file.metadata, c.name) # EMBED_FLAG
  /\ \A i \in 1..Len(WrittenRanks(c)) :
       /\ DictHas(file.metadata, Key(c.name, i - 1, RANK))
       /\ DictAt(file.metadata, Key(c.name, i - 1, RANK)) # EMBED_FLAG
       /\ DictHas(file.weights, Key(c.name, i - 1, UP))
       /\ SameValues(DictAt(file.weights, Key(c.name, i - 1, UP)),
                     WrittenWeights(c)[2 * i - 1])
       /\ DictHas(file.weights, Key(c.name, i - 1, DOWN))
       /\ SameValues(DictAt(file.weights, Key(c.name, i - 1, DOWN)),
                     WrittenWeights(c)[2 * i])

C27_DisjointKeys ==
  (file.written /\ given.modelmap # <<>> /\ given.embeds # <<>>) =>
    /\ \A c \in Range(given.modelmap) : NotOverwritten(c)
    /\ parsed.done =>
         /\ parsed.err = "ok"
         /\ \A c \in Range(given.modelmap) : DictHas(parsed.out, c.name)
    /\ embeds.done =>
         /\ embeds.err = "ok"
         /\ \A e \in Range(given.embeds) : DictHas(embeds.out, e.key)

\* C27's case where the keys are apart: a component with two or more
\* layers and a token that is neither its name nor one of its keys, written
\* and read by both parsers
C27_KeysApart ==
  /\ file.written /\ parsed.done /\ embeds.done
  /\ parsed.err = "ok" /\ embeds.err = "ok"
  /\ Len(given.modelmap) = 1 /\ Len(given.embeds) = 1
  /\ Len(WrittenRanks(given.modelmap[1])) >= 2
  /\ NotOverwritten(given.modelmap[1])
  /\ DictHas(parsed.out, given.modelmap[1].name)
  /\ DictHas(embeds.out, given.embeds[1].key)

====
